---- MODULE Spec2Model ----
(***************************************************************************)
(* Sub-auto: the resumable batch translation pipeline.                     *)
(*                                                                         *)
(*   core/style_handler.py   StyleHandler        (markup codec)            *)
(*   core/retry_handler.py   NetworkRetryHandler (retry engine)            *)
(*   core/translator.py      NetworkRetryHandler, Translator               *)
(*   core/state_manager.py   StateManager        (progress store)          *)
(*                                                                         *)
(* Text is a sequence of one-character strings.  Times are seconds, kept   *)
(* as exact fractions [n, d] in lowest terms.                              *)
(***************************************************************************)
EXTENDS Integers, Sequences, FiniteSets, TLC

VARIABLES
    \* ---- StyleHandler round trip
    text,            \* the subtitle line's text
    style,           \* the subtitle line's style name
    prepared,        \* first component of prepare_for_translation's result
    metadata,        \* second component of prepare_for_translation's result
    restored,        \* result of restore_styles
    cpc,             \* position of the codec round trip
    \* ---- NetworkRetryHandler
    handler,         \* which of the two NetworkRetryHandler classes runs
    config,          \* self.config, a RetryConfig
    dpc,             \* position of the calculate_delay experiment
    d_attempt,       \* the attempt number handed to calculate_delay
    d_error,         \* the error handed to calculate_delay
    delay_a,         \* calculate_delay(d_attempt, d_error)
    delay_b,         \* calculate_delay(d_attempt + 1, d_error)
    rpc,             \* position inside execute_with_retry
    attempt,         \* loop variable of execute_with_retry
    last_error,      \* local last_error
    delay,           \* local delay
    slept,           \* local slept, in sleep_step ticks
    raised,          \* the exception execute_with_retry ended with
    should_stop,     \* the flag stop_check reads
    op_calls,        \* number of func() invocations of this run
    retry_log,       \* the on_retry calls of this run, <<attempt, delay, error_msg>>
    waits,           \* number of backoff waits entered in this run
    stop_in_backoff, \* should_stop was set during a backoff wait
    calls_after_stop,  \* func() invocations of this Translator begun after should_stop was set
    sleeps_after_stop, \* time.sleep calls begun after should_stop was set
    \* ---- StateManager
    current_state,   \* self.current_state: <<>> for None, else <<TranslationState>>
    state_file,      \* the file translation_state.json
    disk,            \* whether writing the state file works
    last_new,        \* new_translations of the latest update_progress call
    replayed,        \* the latest update_progress call repeated the one before
    replay_kept,     \* ... and left completed_translations as it was
    query,           \* source_file handed to has_resumable_state, "" for None
    resumable,       \* what has_resumable_state returned, <<>> before the call
    \* ---- Translator.translate_all and its caller
    pc,              \* position of the worker running translate_all
    runs,            \* number of translate_all runs started
    batch_size,      \* config.batch_size
    is_configured,   \* model_manager.is_configured
    batch_idx,       \* loop variable batch_idx
    all_translations,  \* local all_translations
    errors,          \* local errors, <<batch number, message>>
    completed_indices, \* local completed_indices
    context_lines,   \* local context_lines, as line indices
    token_usage,     \* self.token_usage
    response,        \* response_text held by translate_batch
    is_paused,       \* Translator.is_paused
    app_should_cancel, \* SubAutoApp.should_cancel, read by the progress callback
    app_is_paused,   \* SubAutoApp.is_paused
    stopped,         \* the batch loop was left through the should_stop break
    failed_batches,  \* the batches recorded as failed in this run
    batches_seen,    \* the batches this run has processed or skipped
    loaded_indices,  \* completed_indices as loaded at the start of the run
    oracle,          \* a provider that answers by the batch alone: its texts
    interrupted_after,  \* the batches the interrupted run before this one went through
    \* ---- Translator._parse_response on a response text
    raw_response,    \* the text handed to _parse_response, as tokens
    results,         \* <<>> before the call, then <<the list it returned>>
    \* ---- SubAutoApp and the worker threads it starts
    workers,         \* the threads running _run_translation, each with its Translator
    active_translator, \* SubAutoApp.active_translator: 0 for None, else the worker
    is_processing,   \* SubAutoApp.is_processing
    \* ---- TokenUsage written by the worker thread and read by the GUI thread
    writer,          \* the worker's position inside reset, the seeding, or add
    displayed        \* <<>>, then the values the GUI thread read for set_token_stats

codecVars == <<text, style, prepared, metadata, restored, cpc>>
delayVars == <<dpc, d_attempt, d_error, delay_a, delay_b>>
retryVars == <<rpc, attempt, last_error, delay, slept, raised, should_stop,
               op_calls, retry_log, waits, stop_in_backoff,
               calls_after_stop, sleeps_after_stop>>

storeVars == <<current_state, state_file, disk, last_new, replayed, replay_kept,
               query, resumable>>

jobVars == <<pc, runs, batch_size, is_configured, batch_idx, all_translations,
             errors, completed_indices, context_lines, token_usage, response,
             is_paused, app_should_cancel, app_is_paused, stopped,
             failed_batches, batches_seen, loaded_indices, oracle,
                   interrupted_after>>

parseVars == <<raw_response, results>>

workerVars == <<workers, active_translator, is_processing>>

tokenVars == <<writer, displayed>>

vars == <<codecVars, handler, config, delayVars, parseVars, workerVars, tokenVars, retryVars, storeVars,
          jobVars>>

(***************************************************************************)
(* Bounds                                                                  *)
(***************************************************************************)
MaxTextLen == 9
MaxRetries == 2
MaxDelayAttempt == 4
MaxLines == 2
MaxNew == 2
MaxTokens == 2
MaxResp == 2
MaxRuns == 2
MaxRespTokens == 4
MaxWorkers == 2

(***************************************************************************)
(* Generic helpers                                                         *)
(***************************************************************************)
SubSeqFrom(s, i) == SubSeq(s, i, Len(s))

\* Python's  pat in s  for sequences of characters
ContainsSeq(s, pat) ==
    \E i \in 1..(Len(s) - Len(pat) + 1) : SubSeq(s, i, i + Len(pat) - 1) = pat

(***************************************************************************)
(* core/style_handler.py                                                   *)
(***************************************************************************)
Alphabet == {"{", "}", "\\", "a"}

\* lines with positional markup, outside the enumerated alphabet
PositionalSamples ==
    { <<"{", "\\", "p", "o", "s", "(", "1", ")", "}", "a">>,
      <<"a", "{", "\\", "c", "l", "i", "p", "(", "1", ")", "}">>,
      <<"\\", "m", "o", "v", "e", "(">>,
      <<"{", "\\", "o", "r", "g", "(", "}">> }

Texts == (UNION { [1..n -> Alphabet] : n \in 0..MaxTextLen }) \cup PositionalSamples

StyleNames == {"Default", "Sign", "op", "Karaoke"}

\* str.lower() on the style names that are drawn
Lower(s) ==
    CASE s = "Default" -> "default"
      [] s = "Sign"    -> "sign"
      [] s = "Karaoke" -> "karaoke"
      [] OTHER         -> s

SKIP_TRANSLATION_STYLES ==
    {"sign", "signs", "op", "ed", "opening", "ending",
     "title", "card", "note", "notes", "karaoke"}

POSITIONING_TAGS ==
    { <<"\\", "p", "o", "s", "(">>,
      <<"\\", "m", "o", "v", "e", "(">>,
      <<"\\", "o", "r", "g", "(">>,
      <<"\\", "c", "l", "i", "p", "(">> }

placeholder_pattern(idx) == "<<STYLE_" \o ToString(idx) \o ">>"

should_skip_translation(style_name, t) ==
    \/ Lower(style_name) \in SKIP_TRANSLATION_STYLES
    \/ \E tag_pattern \in POSITIONING_TAGS : ContainsSeq(t, tag_pattern)

\* index of the first "}" at or after position from, 0 when there is none
FirstClose(t, from) ==
    IF \E q \in from..Len(t) : t[q] = "}"
    THEN CHOOSE q \in from..Len(t) :
             /\ t[q] = "}"
             /\ \A r \in from..(q - 1) : t[r] # "}"
    ELSE 0

\* re.match(r'^(\{[^}]*\})+', text): the index of the last character matched,
\* scanning one brace group at a time from position p
RECURSIVE PrefixRun(_, _)
PrefixRun(t, p) ==
    IF p <= Len(t) /\ t[p] = "{" /\ FirstClose(t, p + 1) # 0
    THEN PrefixRun(t, FirstClose(t, p + 1) + 1)
    ELSE p - 1

\* re.finditer(r'\{\\[^}]+\}', remaining_text) with the loop body of
\* extract_styles: i is the scan position, last_pos the end of the last match,
\* clean the joined clean_text_parts, tags the inline_tags list of
\* <<position in clean text, tag>>
RECURSIVE ScanInline(_, _, _, _, _)
ScanInline(r, i, last_pos, clean, tags) ==
    IF i > Len(r)
    THEN [clean_text |-> clean \o SubSeqFrom(r, last_pos), inline_tags |-> tags]
    ELSE IF /\ r[i] = "{"
            /\ i + 1 <= Len(r)
            /\ r[i + 1] = "\\"
            /\ FirstClose(r, i + 2) >= i + 3
         THEN LET q  == FirstClose(r, i + 2)
                  c2 == clean \o SubSeq(r, last_pos, i - 1)
              IN  ScanInline(r, q + 1, q + 1, c2,
                             Append(tags, <<Len(c2), SubSeq(r, i, q)>>))
         ELSE ScanInline(r, i + 1, last_pos, clean, tags)

extract_styles(t) ==
    LET plen      == PrefixRun(t, 1)
        remaining == SubSeqFrom(t, plen + 1)
        scan      == ScanInline(remaining, 1, 1, <<>>, <<>>)
    IN  [prefix_tags |-> SubSeq(t, 1, plen),
         clean_text  |-> scan.clean_text,
         inline_tags |-> scan.inline_tags,
         has_complex_styling |->
             \E pattern \in POSITIONING_TAGS : ContainsSeq(t, pattern)]

\* sorted(tags, key=lambda x: x[0], reverse=True): a stable sort, so tags of
\* equal position keep their relative order
RECURSIVE SortedReverse(_)
SortedReverse(tags) ==
    IF tags = <<>> THEN <<>>
    ELSE LET rest == SortedReverse(Tail(tags))
             h    == Head(tags)
             k    == Cardinality({j \in 1..Len(rest) : rest[j][1] > h[1]})
         IN  SubSeq(rest, 1, k) \o <<h>> \o SubSeqFrom(rest, k + 1)

\* the placeholder loop of prepare_for_translation from entry idx (0-based)
RECURSIVE InsertPlaceholders(_, _, _, _)
InsertPlaceholders(sorted_tags, idx, twp, placeholder_map) ==
    IF idx >= Len(sorted_tags)
    THEN [text |-> twp, map |-> placeholder_map]
    ELSE LET pos == sorted_tags[idx + 1][1]
             tag == sorted_tags[idx + 1][2]
             ph  == placeholder_pattern(idx)
         IN  InsertPlaceholders(
                 sorted_tags, idx + 1,
                 SubSeq(twp, 1, pos) \o <<ph>> \o SubSeqFrom(twp, pos + 1),
                 Append(placeholder_map, <<ph, tag>>))

\* the result pair as a record [text, meta]
prepare_for_translation(t, style_name) ==
    IF should_skip_translation(style_name, t)
    THEN [text |-> t,
          meta |-> [skip |-> TRUE, original |-> t, prefix_tags |-> <<>>,
                    inline_tags |-> <<>>, has_complex |-> FALSE]]
    ELSE LET style_info == extract_styles(t)
         IN  IF style_info.inline_tags = <<>>
             THEN [text |-> style_info.clean_text,
                   meta |-> [skip |-> FALSE, original |-> <<>>,
                             prefix_tags |-> style_info.prefix_tags,
                             inline_tags |-> <<>>,
                             has_complex |-> style_info.has_complex_styling]]
             ELSE LET ins == InsertPlaceholders(
                                 SortedReverse(style_info.inline_tags), 0,
                                 style_info.clean_text, <<>>)
                  IN  [text |-> ins.text,
                       meta |-> [skip |-> FALSE, original |-> <<>>,
                                 prefix_tags |-> style_info.prefix_tags,
                                 inline_tags |-> ins.map,
                                 has_complex |-> style_info.has_complex_styling]]

\* str.replace(placeholder, tag) on a text whose placeholders are single elements
RECURSIVE Replace(_, _, _)
Replace(s, ph, tag) ==
    IF s = <<>> THEN <<>>
    ELSE (IF Head(s) = ph THEN tag ELSE <<Head(s)>>) \o Replace(Tail(s), ph, tag)

RECURSIVE RestoreInline(_, _)
RestoreInline(result, inline_tags) ==
    IF inline_tags = <<>> THEN result
    ELSE RestoreInline(Replace(result, Head(inline_tags)[1], Head(inline_tags)[2]),
                       Tail(inline_tags))

restore_styles(translated_text, meta) ==
    IF meta.skip
    THEN meta.original
    ELSE meta.prefix_tags \o RestoreInline(translated_text, meta.inline_tags)

NoMeta == [skip |-> FALSE, original |-> <<>>, prefix_tags |-> <<>>,
           inline_tags |-> <<>>, has_complex |-> FALSE]

(***************************************************************************)
(* Exact arithmetic on non-negative fractions                              *)
(***************************************************************************)
RECURSIVE GCD(_, _)
GCD(a, b) == IF b = 0 THEN a ELSE GCD(b, a % b)

Frac(n, d) == LET g == GCD(n, d) IN [n |-> n \div g, d |-> d \div g]

FMul(a, b) == Frac(a.n * b.n, a.d * b.d)
FLe(a, b)  == a.n * b.d <= b.n * a.d
FLt(a, b)  == a.n * b.d < b.n * a.d
FMin(a, b) == IF FLe(a, b) THEN a ELSE b
FMax(a, b) == IF FLe(b, a) THEN a ELSE b

RECURSIVE FPow(_, _)
FPow(b, k) == IF k = 0 THEN Frac(1, 1) ELSE FMul(b, FPow(b, k - 1))

(***************************************************************************)
(* core/retry_handler.py and the copy of the class in core/translator.py   *)
(***************************************************************************)
Handlers == {"retry_handler", "translator"}

\* Translator.__init__: self.retry_handler = NetworkRetryHandler(retry_config),
\* the class defined in translator.py itself
PipelineHandler == "translator"

NoError == [type |-> "None", msg |-> ""]

\* the exceptions func() is drawn to raise
ErrorSamples ==
    { [type |-> "OSError",    msg |-> "Connection reset"],
      [type |-> "OSError",    msg |-> "busy, retry after 0.05 s"],
      [type |-> "Exception",  msg |-> "HTTP 503"],
      [type |-> "Exception",  msg |-> "503 Service Unavailable"],
      [type |-> "Exception",  msg |-> "429 Too Many Requests"],
      [type |-> "Exception",  msg |-> "Rate limit reached, please try again in 1.5s"],
      [type |-> "Exception",  msg |-> "Invalid API key"],
      [type |-> "ValueError", msg |-> "Empty response from API"] }

\* isinstance(error, NETWORK_ERRORS)
NETWORK_ERRORS == {"socket.timeout", "socket.error", "URLError", "HTTPException",
                   "ConnectionError", "TimeoutError", "OSError"}

network_keywords ==
    {"connection", "timeout", "timed out", "network", "unreachable", "reset",
     "refused", "broken pipe", "eof", "ssl", "certificate", "handshake",
     "dns", "resolve", "socket", "connect", "incomplete"}
rate_limit_keywords == {"rate", "limit", "quota", "429", "too many"}
server_error_keywords == {"500", "502", "503", "504", "server error", "internal error"}
google_retryable == {"resource_exhausted", "unavailable", "deadline_exceeded",
                     "internal", "aborted"}

\* the keywords kw of the four lists with  kw in str(error).lower()
KeywordsIn(msg) ==
    CASE msg = "Connection reset"        -> {"connection", "connect", "reset"}
      [] msg = "HTTP 503"                -> {"503"}
      [] msg = "503 Service Unavailable" -> {"503", "unavailable"}
      [] msg = "429 Too Many Requests"   -> {"429", "too many"}
      [] msg = "Rate limit reached, please try again in 1.5s" -> {"rate", "limit"}
      [] OTHER                           -> {}

\* re.search(r'(?:try again in|retry after)\s+([\d.]+)\s*s', str(error)):
\* <<float(match.group(1))>>, or <<>> when there is no match
SuggestedDelay(msg) ==
    CASE msg = "Rate limit reached, please try again in 1.5s" -> <<Frac(3, 2)>>
      [] msg = "busy, retry after 0.05 s"                     -> <<Frac(1, 20)>>
      [] OTHER                                                -> <<>>

is_retryable_error(error) ==
    LET kws == KeywordsIn(error.msg)
    IN  \/ error.type \in NETWORK_ERRORS
        \/ kws \cap network_keywords # {}
        \/ config.retry_on_rate_limit /\ kws \cap rate_limit_keywords # {}
        \/ config.retry_on_server_error /\ kws \cap server_error_keywords # {}
        \/ kws \cap google_retryable # {}

MinDelay == Frac(1, 10)

\* random.uniform(-jitter_range, jitter_range) = jitter_range * u / JitterScale
JitterScale == 2
JitterDraws == (0 - JitterScale)..JitterScale

Backoff_NoCap(att, u) ==
    LET d0 == FMul(config.initial_delay, FPow(config.exponential_base, att))
        d2 == IF config.jitter
              THEN FMul(d0, Frac(4 * JitterScale + u, 4 * JitterScale))
              ELSE d0
    IN  FMax(MinDelay, d2)

\* the exponential backoff of both classes; u is the jitter draw
Backoff(att, u) ==
    LET d0 == FMul(config.initial_delay, FPow(config.exponential_base, att))
        d1 == FMin(d0, config.max_delay)
        d2 == IF config.jitter
              THEN FMul(d1, Frac(4 * JitterScale + u, 4 * JitterScale))
              ELSE d1
    IN  FMax(MinDelay, d2)

calculate_delay_NextAttempt(h, att, error, u) ==
    IF h = "retry_handler" /\ error # NoError /\ SuggestedDelay(error.msg) # <<>>
    THEN FMax(FMul(SuggestedDelay(error.msg)[1], Frac(11, 10)), MinDelay)
    ELSE Backoff(att + 1, u)

\* calculate_delay(attempt, error) of class h; translator.py's takes no error
calculate_delay(h, att, error, u) ==
    IF h = "retry_handler" /\ error # NoError /\ SuggestedDelay(error.msg) # <<>>
    THEN FMax(FMul(SuggestedDelay(error.msg)[1], Frac(11, 10)), MinDelay)
    ELSE Backoff(att, u)

Draws == IF config.jitter THEN JitterDraws ELSE {0}

InitialDelays    == {Frac(1, 20), Frac(3, 10), Frac(1, 1)}
MaxDelays        == {Frac(1, 20), Frac(1, 2), Frac(60, 1)}
ExponentialBases == {Frac(1, 1), Frac(3, 2), Frac(2, 1)}

DelayConfigs ==
    [max_retries : {5}, initial_delay : InitialDelays, max_delay : MaxDelays,
     exponential_base : ExponentialBases, jitter : BOOLEAN,
     retry_on_rate_limit : {TRUE}, retry_on_server_error : {TRUE}]

IdleRetry ==
    /\ rpc = "idle"
    /\ attempt = 0
    /\ last_error = NoError
    /\ delay = Frac(0, 1)
    /\ slept = 0
    /\ raised = NoError
    /\ should_stop = FALSE
    /\ op_calls = 0
    /\ retry_log = <<>>
    /\ waits = 0
    /\ stop_in_backoff = FALSE
    /\ calls_after_stop = 0
    /\ sleeps_after_stop = 0

IdleDelay ==
    /\ dpc = "idle"
    /\ d_attempt = 0
    /\ d_error = NoError
    /\ delay_a = Frac(0, 1)
    /\ delay_b = Frac(0, 1)

\* no worker thread was started
Workers == 1..MaxWorkers

NoWorker ==
    [pc |-> "none", is_paused |-> FALSE, should_stop |-> FALSE, batch_idx |-> 0,
     completed_indices |-> {}, prompt_tokens |-> 0, completion_tokens |-> 0]

IdleWorkers ==
    /\ workers = [w \in Workers |-> NoWorker]
    /\ active_translator = 0
    /\ is_processing = FALSE

\* no TokenUsage is being written or read
IdleWriter == [pc |-> "idle", prompt |-> 0, completion |-> 0, adds |-> 0]

IdleTokens ==
    /\ writer = IdleWriter
    /\ displayed = <<>>

IdleParse ==
    /\ raw_response = <<>>
    /\ results = <<>>

IdleCodec ==
    /\ text = <<>>
    /\ style = "Default"
    /\ prepared = <<>>
    /\ metadata = NoMeta
    /\ restored = <<>>
    /\ cpc = "idle"

(***************************************************************************)
(* core/state_manager.py                                                   *)
(***************************************************************************)
\* line indices and translated texts that are drawn
Indices == 1..MaxLines
RespTexts == {"tA", "tB"}

\* the lists of (index, text) pairs handed to update_progress
Pairs == Indices \X RespTexts
NewLists == UNION { [1..n -> Pairs] : n \in 0..MaxNew }

\* the source file and its fingerprint as found on disk
current_file == "movie.mkv"
selected_track_id == 2

\* calculate_file_hash(file_path): MD5 of the first megabyte
calculate_file_hash(file_path) ==
    IF file_path = current_file THEN "md5-movie" ELSE ""

\* the paths of the file system: the source file, a file that exists but
\* cannot be read, and a file that is gone
unreadable_file == "locked.mkv"
missing_file == "old.mkv"

\* the state file: absent, a complete JSON document, or a damaged one, which
\* json.load rejects: empty, or the beginning of the document being written
NoFile == [exists |-> FALSE, valid |-> FALSE, data |-> <<>>]

\* TranslationState.to_dict / from_dict on the fields the pipeline reads
to_dict(st) ==
    [source_file |-> st.source_file,
     source_file_hash |-> st.source_file_hash,
     track_id |-> st.track_id,
     total_lines |-> st.total_lines,
     completed_translations |-> st.completed_translations,
     current_batch_index |-> st.current_batch_index,
     prompt_tokens_used |-> st.prompt_tokens_used,
     completion_tokens_used |-> st.completion_tokens_used]

from_dict(data) ==
    [source_file |-> data.source_file,
     source_file_hash |-> data.source_file_hash,
     track_id |-> data.track_id,
     total_lines |-> data.total_lines,
     completed_translations |-> data.completed_translations,
     current_batch_index |-> data.current_batch_index,
     prompt_tokens_used |-> data.prompt_tokens_used,
     completion_tokens_used |-> data.completion_tokens_used]

\* the disk: writable; open(..., 'w') fails (permission); or the write fails
\* after open(..., 'w') truncated the file (disk full)
DiskModes == {"ok", "denied", "full"}

save_Skipped(cs, file) == file

\* save(): the file after the call, for current_state cs
save(cs, file) ==
    IF cs = <<>> THEN file
    ELSE CASE disk = "ok" ->
                  [exists |-> TRUE, valid |-> TRUE, data |-> <<to_dict(cs[1])>>]
           [] disk = "denied" -> file
           [] OTHER -> [exists |-> TRUE, valid |-> FALSE, data |-> <<to_dict(cs[1])>>]

\* TranslationState(...) of create_state
NewState(source_file, track_id, total_lines) ==
    [source_file |-> source_file,
     source_file_hash |-> calculate_file_hash(source_file),
     track_id |-> track_id,
     total_lines |-> total_lines,
     completed_translations |-> <<>>,
     current_batch_index |-> 0,
     prompt_tokens_used |-> 0,
     completion_tokens_used |-> 0]

IndexSet(translations) == { translations[k][1] : k \in 1..Len(translations) }

MergeNew_NoCheck(completed, new_translations) == completed \o new_translations

\* lines 203-206: existing_indices is computed once, before the loop
MergeNew(completed, new_translations) ==
    LET existing_indices == IndexSet(completed)
        IsNew(t) == t[1] \notin existing_indices
    IN  completed \o SelectSeq(new_translations, IsNew)

Updated_IfSaved(st, new_translations, batch_index, prompt_tokens, completion_tokens) ==
    IF disk # "ok" THEN st
    ELSE [st EXCEPT
             !.completed_translations = MergeNew(@, new_translations),
             !.current_batch_index = batch_index,
             !.prompt_tokens_used = @ + prompt_tokens,
             !.completion_tokens_used = @ + completion_tokens]

\* update_progress on a TranslationState
Updated(st, new_translations, batch_index, prompt_tokens, completion_tokens) ==
    [st EXCEPT
        !.completed_translations = MergeNew(@, new_translations),
        !.current_batch_index = batch_index,
        !.prompt_tokens_used = @ + prompt_tokens,
        !.completion_tokens_used = @ + completion_tokens]

\* create_state(...), with its save()
CreateStateK(source_file, track_id, total_lines) ==
    /\ current_state' = <<NewState(source_file, track_id, total_lines)>>
    /\ state_file' = save(current_state', state_file)
    /\ disk' = disk
    /\ last_new' = <<>>
    /\ replayed' = FALSE
    /\ replay_kept' = TRUE
    /\ UNCHANGED <<query, resumable>>

\* update_progress(...), with its save()
UpdateProgressK(new_translations, batch_index, prompt_tokens, completion_tokens) ==
    IF current_state = <<>>
    THEN UNCHANGED storeVars
    ELSE /\ current_state' = <<Updated(current_state[1], new_translations,
                                       batch_index, prompt_tokens,
                                       completion_tokens)>>
         /\ state_file' = save(current_state', state_file)
         /\ disk' = disk
         /\ UNCHANGED <<query, resumable>>
         /\ last_new' = <<new_translations>>
         /\ replayed' = (last_new = <<new_translations>>)
         /\ replay_kept' =
                (last_new = <<new_translations>> =>
                    current_state'[1].completed_translations =
                        current_state[1].completed_translations)

\* get_completed_indices()
get_completed_indices ==
    IF current_state = <<>> THEN {}
    ELSE IndexSet(current_state[1].completed_translations)

\* current_state.current_batch_index
get_current_batch_index ==
    IF current_state = <<>> THEN 0 ELSE current_state[1].current_batch_index

\* get_completed_translations()
get_completed_translations ==
    IF current_state = <<>> THEN <<>>
    ELSE current_state[1].completed_translations

IdleStore ==
    /\ current_state = <<>>
    /\ state_file = NoFile
    /\ disk = "ok"
    /\ last_new = <<>>
    /\ replayed = FALSE
    /\ replay_kept = TRUE
    /\ query = ""
    /\ resumable = <<>>

(***************************************************************************)
(* core/translator.py: Translator                                          *)
(***************************************************************************)
\* the subtitle lines of the job: SubtitleLine records with distinct indices,
\* dialogue lines followed by one line of a sign style
Lines ==
    [i \in 1..MaxLines |->
        [index |-> i, text |-> "src" \o ToString(i),
         style |-> IF i = MaxLines THEN "Sign" ELSE "Default"]]

\* the characters of a line's text
Chars(line) == <<"s", "r", "c", ToString(line.index)>>

\* lines 513-516: lines_text, the lines written into the prompt
PromptLines(batch) == { batch[k] : k \in 1..Len(batch) }

\* batches = [lines[i:i + batch_size] for i in range(0, len(lines), batch_size)]
NumBatches(bs) == (Len(Lines) + bs - 1) \div bs

Batch(bs, b) ==
    SubSeq(Lines, b * bs + 1, IF (b + 1) * bs < Len(Lines) THEN (b + 1) * bs ELSE Len(Lines))

LineIndices(batch) == { batch[k].index : k \in 1..Len(batch) }

\* batch[-3:] if len(batch) >= 3 else batch, as line indices
LastThree(batch) ==
    LET tail == IF Len(batch) >= 3 THEN SubSeq(batch, Len(batch) - 2, Len(batch)) ELSE batch
    IN  [k \in 1..Len(tail) |-> tail[k].index]

\* what provider.generate_content can return: the [N] text markers that
\* re.findall(pattern, response_text) finds, in order; EmptyResponse is ""
RespPairs == (1..(MaxLines + 1)) \X RespTexts
Responses == UNION { [1..n -> RespPairs] : n \in 0..MaxResp }
EmptyResponse == <<<<0, "">>>>

\* the exceptions provider.generate_content is drawn to raise
ProviderErrors ==
    { [type |-> "Exception", msg |-> "HTTP 503"],
      [type |-> "Exception", msg |-> "Invalid API key"],
      [type |-> "RuntimeError", msg |-> "API Error: content policy violation"] }

\* self.current_model_name, the model every generate_content call is made with
current_model_name == "primary"

\* DEFAULT_CONFIG["fallback_model"]: read by nothing but its own property
fallback_model == ""

\* lines 532-540: the models do_translation handed to generate_content in
\* calls invocations
ModelsCalled(calls) == IF calls > 0 THEN {current_model_name} ELSE {}

EmptyResponseError == [type |-> "ValueError", msg |-> "Empty response from API"]

(***************************************************************************)
(* Translator._parse_response on the text of a response, token by token    *)
(***************************************************************************)
\* the tokens of a response text: [N] markers, words, blanks
Markers == {"[1]", "[2]", "[5]", "[01]"}
Spaces == {" ", "\n"}
RespAlphabet == {"[1]", "[2]", "[5]", "Halo", " ", "\n"}

\* int(match[0])
MarkerIndex(tok) ==
    CASE tok = "[1]"  -> 1
      [] tok = "[01]" -> 1
      [] tok = "[2]"  -> 2
      [] OTHER        -> 5

\* the lookahead (?=\n\[\d+\]|\Z) at position q
Lookahead(t, q) ==
    \/ q > Len(t)
    \/ q + 1 <= Len(t) /\ t[q] = "\n" /\ t[q + 1] \in Markers

\* str.strip()
RECURSIVE Strip(_)
Strip(t) ==
    IF t = <<>> THEN <<>>
    ELSE IF Head(t) \in Spaces THEN Strip(Tail(t))
    ELSE IF t[Len(t)] \in Spaces THEN Strip(SubSeq(t, 1, Len(t) - 1))
    ELSE t

\* \[(\d+)\]\s*(.+?)(?=...) tried at the marker at position p: <<>> when it
\* does not match, else <<[index, text, next]>>; \s* is greedy and gives a
\* blank back when nothing else is left for the text
MatchAt(t, p) ==
    LET NonBlank == { q \in (p + 1)..Len(t) : t[q] \notin Spaces }
        start == IF NonBlank # {}
                 THEN CHOOSE q \in NonBlank : \A r \in NonBlank : q <= r
                 ELSE Len(t)
    IN  IF start <= p THEN <<>>
        ELSE LET stop == CHOOSE e \in start..Len(t) :
                             /\ Lookahead(t, e + 1)
                             /\ \A r \in start..(e - 1) : ~Lookahead(t, r + 1)
             IN  <<[index |-> t[p], text |-> SubSeq(t, start, stop), next |-> stop + 1]>>

\* re.findall(pattern, response_text, re.DOTALL), scanning from position from
RECURSIVE findall(_, _)
findall(t, from) ==
    IF from > Len(t) THEN <<>>
    ELSE IF t[from] \in Markers /\ MatchAt(t, from) # <<>>
         THEN LET m == MatchAt(t, from)[1]
              IN  <<<<MarkerIndex(m.index), Strip(m.text)>>>> \o findall(t, m.next)
         ELSE findall(t, from + 1)

parse_response_NoFilter(response_text, original_lines) == response_text

\* _parse_response: the markers whose index is one of the batch's
parse_response(response_text, original_lines) ==
    LET expected_indices == LineIndices(original_lines)
        Expected(match) == match[1] \in expected_indices
    IN  SelectSeq(response_text, Expected)

\* len(prompt) // 4 and len(response_text) // 4, in units of one line
estimated_prompt_tokens(batch) == Len(batch)
estimated_completion_tokens(response_text) == Len(response_text)

\* TokenUsage.add
TokenAdd(tu, prompt, completion) ==
    [prompt_tokens |-> tu.prompt_tokens + prompt,
     completion_tokens |-> tu.completion_tokens + completion,
     total_tokens |-> tu.prompt_tokens + prompt + tu.completion_tokens + completion]

ZeroTokens == [prompt_tokens |-> 0, completion_tokens |-> 0, total_tokens |-> 0]

SortByIndex_Unsorted(translations) == translations

\* list.sort(key=lambda x: x[0]): stable
RECURSIVE SortByIndex(_)
SortByIndex(translations) ==
    IF translations = <<>> THEN <<>>
    ELSE LET rest == SortByIndex(Tail(translations))
             h    == Head(translations)
             k    == Cardinality({j \in 1..Len(rest) : rest[j][1] < h[1]})
         IN  SubSeq(rest, 1, k) \o <<h>> \o SubSeqFrom(rest, k + 1)

NewTranslations_None(translated_lines, completed) == <<>>

\* lines 728-733: the translated lines of a successful batch that are merged
RECURSIVE NewTranslations(_, _)
NewTranslations(translated_lines, completed) ==
    IF translated_lines = <<>> THEN <<>>
    ELSE LET h == Head(translated_lines)
         IN  IF h[1] \notin completed
             THEN <<h>> \o NewTranslations(Tail(translated_lines), completed \cup {h[1]})
             ELSE NewTranslations(Tail(translated_lines), completed)

Originals_Blank(batch, completed) ==
    LET NotCompleted(line) == line.index \notin completed
        kept == SelectSeq(batch, NotCompleted)
    IN  [k \in 1..Len(kept) |-> <<kept[k].index, "">>]

\* lines 759-761: the original lines kept for a failed batch
Originals(batch, completed) ==
    LET NotCompleted(line) == line.index \notin completed
        kept == SelectSeq(batch, NotCompleted)
    IN  [k \in 1..Len(kept) |-> <<kept[k].index, kept[k].text>>]

ErrorsAfterFailure_Dropped(errs, b, message) == errs

\* lines 755-757: errors.append(f"Batch {batch_idx + 1} failed: ...")
ErrorsAfterFailure(errs, b, message) == Append(errs, <<b + 1, message>>)

\* Path(state.source_file).exists()
SourceExists(path) == path \in {current_file, unreadable_file}

load_Lenient ==
    IF state_file.exists /\ state_file.data # <<>>
    THEN [state |-> <<from_dict(state_file.data[1])>>,
          cs    |-> <<from_dict(state_file.data[1])>>]
    ELSE [state |-> <<>>, cs |-> current_state]

\* load(): the state returned (<<>> for None) and self.current_state after it
load ==
    IF state_file.exists /\ state_file.valid
    THEN [state |-> <<from_dict(state_file.data[1])>>,
          cs    |-> <<from_dict(state_file.data[1])>>]
    ELSE [state |-> <<>>, cs |-> current_state]

has_resumable_state_NoHash(source_file) ==
    LET l == load
    IN  IF l.state = <<>> THEN [result |-> FALSE, cs |-> l.cs]
        ELSE IF Len(l.state[1].completed_translations) = 0
             THEN [result |-> FALSE, cs |-> <<>>]
        ELSE IF source_file # "" /\ l.state[1].source_file # source_file
             THEN [result |-> FALSE, cs |-> <<>>]
        ELSE IF ~SourceExists(l.state[1].source_file)
             THEN [result |-> FALSE, cs |-> <<>>]
        ELSE [result |-> TRUE, cs |-> l.cs]

\* has_resumable_state(source_file): the result and self.current_state after it
has_resumable_state(source_file) ==
    LET l == load
    IN  IF l.state = <<>> THEN [result |-> FALSE, cs |-> l.cs]
        ELSE IF Len(l.state[1].completed_translations) = 0
             THEN [result |-> FALSE, cs |-> <<>>]
        ELSE IF source_file # "" /\ l.state[1].source_file # source_file
             THEN [result |-> FALSE, cs |-> <<>>]
        ELSE IF /\ source_file # ""
                /\ calculate_file_hash(source_file) # ""
                /\ l.state[1].source_file_hash # calculate_file_hash(source_file)
             THEN [result |-> FALSE, cs |-> <<>>]
        ELSE IF ~SourceExists(l.state[1].source_file)
             THEN [result |-> FALSE, cs |-> <<>>]
        ELSE [result |-> TRUE, cs |-> l.cs]

IdleJob ==
    /\ pc = "idle"
    /\ runs = 0
    /\ batch_size = 1
    /\ is_configured = TRUE
    /\ batch_idx = 0
    /\ all_translations = <<>>
    /\ errors = <<>>
    /\ completed_indices = {}
    /\ context_lines = <<>>
    /\ token_usage = ZeroTokens
    /\ response = <<>>
    /\ is_paused = FALSE
    /\ app_should_cancel = FALSE
    /\ app_is_paused = FALSE
    /\ stopped = FALSE
    /\ failed_batches = {}
    /\ batches_seen = {}
    /\ loaded_indices = {}
    /\ oracle = <<>>
    /\ interrupted_after = 0

\* RetryConfig()
DefaultConfig ==
    [max_retries |-> 5, initial_delay |-> Frac(1, 1), max_delay |-> Frac(60, 1),
     exponential_base |-> Frac(2, 1), jitter |-> TRUE,
     retry_on_rate_limit |-> TRUE, retry_on_server_error |-> TRUE]

IdleConfig ==
    /\ handler = "translator"
    /\ config = DefaultConfig

(***************************************************************************)
(* StyleHandler round trip: prepare_for_translation, identity translation, *)
(* restore_styles                                                          *)
(***************************************************************************)
CodecInit ==
    /\ IdleRetry /\ IdleDelay /\ IdleConfig /\ IdleStore /\ IdleJob
    /\ IdleParse /\ IdleWorkers /\ IdleTokens
    /\ \/ style = "Default" /\ text \in Texts
       \/ style \in StyleNames /\ text \in PositionalSamples \cup {<<>>, <<"a">>}
    /\ prepared = <<>>
    /\ metadata = NoMeta
    /\ restored = <<>>
    /\ cpc = "input"

\* prepare_for_translation(text, style)
Prepare ==
    /\ cpc = "input"
    /\ LET r == prepare_for_translation(text, style)
       IN  /\ prepared' = r.text
           /\ metadata' = r.meta
    /\ cpc' = "prepared"
    /\ UNCHANGED <<text, style, restored, handler, config, delayVars, parseVars, workerVars, tokenVars, retryVars,
                   storeVars, jobVars>>

\* restore_styles on the unchanged prepared text (identity translation)
Restore ==
    /\ cpc = "prepared"
    /\ restored' = restore_styles(prepared, metadata)
    /\ cpc' = "restored"
    /\ UNCHANGED <<text, style, prepared, metadata, handler, config, delayVars, parseVars, workerVars, tokenVars,
                   retryVars, storeVars, jobVars>>

CodecNext == Prepare \/ Restore

SpecCodec == CodecInit /\ [][CodecNext]_vars

(***************************************************************************)
(* C2  Round-trip law: for every line the codec does not skip, restore_    *)
(* styles applied to the unchanged output of prepare_for_translation       *)
(* returns the original text exactly.                                      *)
(***************************************************************************)
C2_RoundTrip ==
    (cpc = "restored" /\ ~metadata.skip) => restored = text

CodecTypeOK ==
    /\ cpc \in {"input", "prepared", "restored"}
    /\ metadata.skip = should_skip_translation(style, text) \/ cpc = "input"

(***************************************************************************)
(* calculate_delay as a function of the attempt number                     *)
(***************************************************************************)
DelayInit ==
    /\ IdleCodec
    /\ IdleRetry
    /\ IdleStore
    /\ IdleJob
    /\ IdleParse /\ IdleWorkers /\ IdleTokens
    /\ handler \in Handlers
    /\ config \in DelayConfigs
    /\ dpc = "input"
    /\ d_attempt \in 0..MaxDelayAttempt
    /\ d_error \in ErrorSamples \cup {NoError}
    /\ delay_a = Frac(0, 1)
    /\ delay_b = Frac(0, 1)

\* calculate_delay for two consecutive attempt numbers
ComputeDelays ==
    /\ dpc = "input"
    /\ \E u \in Draws, v \in Draws :
          /\ delay_a' = calculate_delay(handler, d_attempt, d_error, u)
          /\ delay_b' = calculate_delay(handler, d_attempt + 1, d_error, v)
    /\ dpc' = "computed"
    /\ UNCHANGED <<codecVars, handler, config, d_attempt, d_error, parseVars,
                   workerVars, tokenVars, retryVars, storeVars, jobVars>>

DelayNext == ComputeDelays

SpecDelay == DelayInit /\ [][DelayNext]_vars

\* calculate_delay ran on the exponential backoff path without jitter
PlainBackoff ==
    /\ dpc = "computed"
    /\ ~config.jitter
    /\ (handler = "translator" \/ d_error = NoError \/ SuggestedDelay(d_error.msg) = <<>>)

ShouldReraise_IgnoreLast(e, att) == ~is_retryable_error(e)

ShouldReraise_OnlyLast(e, att) == att = config.max_retries

\* line 177 (translator.py line 168): the error is re-raised at once
ShouldReraise(e, att) ==
    ~is_retryable_error(e) \/ att = config.max_retries

stop_check_None == FALSE

\* stop_check=lambda: self.should_stop, as translate_batch passes it
stop_check == should_stop

\* stop_check and stop_check() at the loop head
HeadStopCheck == stop_check

SleepStopCheck_Never == FALSE

\* stop_check and stop_check() inside the sleep loop
SleepStopCheck == stop_check

\* sleep_step = 0.1
sleep_step == Frac(1, 10)

Slept == Frac(slept * sleep_step.n, sleep_step.d)

\* for attempt in range(max_retries + 1): ... stop_check at the loop head;
\* after the loop: if last_error: raise last_error
RetryHeadK ==
    /\ rpc = "head"
    /\ IF attempt > config.max_retries
       THEN /\ rpc' = IF last_error # NoError THEN "raised" ELSE "returned"
            /\ raised' = last_error
       ELSE /\ rpc' = IF HeadStopCheck THEN "interrupted" ELSE "call"
            /\ raised' = raised
    /\ UNCHANGED <<attempt, last_error, delay, slept, should_stop, op_calls,
                   retry_log, waits, stop_in_backoff, calls_after_stop,
                   sleeps_after_stop>>

\* return func(): func is entered
RetryInvokeK ==
    /\ rpc = "call"
    /\ rpc' = "in_call"
    /\ op_calls' = op_calls + 1
    /\ calls_after_stop' = calls_after_stop + (IF should_stop THEN 1 ELSE 0)
    /\ UNCHANGED <<attempt, last_error, delay, slept, raised, should_stop,
                   retry_log, waits, stop_in_backoff, sleeps_after_stop>>

\* func returned a value
RetryReturnK ==
    /\ rpc = "in_call"
    /\ rpc' = "returned"
    /\ UNCHANGED <<attempt, last_error, delay, slept, raised, should_stop,
                   op_calls, retry_log, waits, stop_in_backoff,
                   calls_after_stop, sleeps_after_stop>>

\* func raised e: the except Exception block up to the sleep loop
RetryExceptK(e) ==
    /\ rpc = "in_call"
    /\ last_error' = e
    /\ IF ShouldReraise(e, attempt)
       THEN /\ rpc' = "raised"
            /\ raised' = e
            /\ UNCHANGED <<delay, slept, retry_log, waits>>
       ELSE /\ \E u \in Draws :
                  /\ delay' = calculate_delay(handler, attempt, e, u)
                  /\ retry_log' = Append(retry_log, <<attempt + 1, delay', e.msg>>)
            /\ slept' = 0
            /\ waits' = waits + 1
            /\ rpc' = "sleep_check"
            /\ raised' = raised
    /\ UNCHANGED <<attempt, should_stop, op_calls, stop_in_backoff,
                   calls_after_stop, sleeps_after_stop>>

\* func raised KeyboardInterrupt, which except Exception does not catch
RetryInterruptK ==
    /\ rpc = "in_call"
    /\ rpc' = "interrupted"
    /\ UNCHANGED <<attempt, last_error, delay, slept, raised, should_stop,
                   op_calls, retry_log, waits, stop_in_backoff,
                   calls_after_stop, sleeps_after_stop>>

\* while slept < delay: stop_check, then time.sleep begins; the loop's exit
\* starts the next attempt
SleepCheckK ==
    /\ rpc = "sleep_check"
    /\ IF FLt(Slept, delay)
       THEN IF SleepStopCheck
            THEN /\ rpc' = "interrupted"
                 /\ UNCHANGED <<attempt, sleeps_after_stop>>
            ELSE /\ rpc' = "sleeping"
                 /\ sleeps_after_stop' =
                        sleeps_after_stop + (IF should_stop THEN 1 ELSE 0)
                 /\ attempt' = attempt
       ELSE /\ attempt' = attempt + 1
            /\ rpc' = "head"
            /\ UNCHANGED sleeps_after_stop
    /\ UNCHANGED <<last_error, delay, slept, raised, should_stop, op_calls,
                   retry_log, waits, stop_in_backoff, calls_after_stop>>

\* time.sleep returns; slept += sleep_step
SleepTickK ==
    /\ rpc = "sleeping"
    /\ slept' = slept + 1
    /\ rpc' = "sleep_check"
    /\ UNCHANGED <<attempt, last_error, delay, raised, should_stop, op_calls,
                   retry_log, waits, stop_in_backoff, calls_after_stop,
                   sleeps_after_stop>>

\* another thread sets the flag stop_check reads
StopK ==
    /\ ~should_stop
    /\ should_stop' = TRUE
    /\ stop_in_backoff' = (rpc \in {"sleep_check", "sleeping"})
    /\ UNCHANGED <<rpc, attempt, last_error, delay, slept, raised, op_calls,
                   retry_log, waits, calls_after_stop, sleeps_after_stop>>

noRetryVars == <<codecVars, handler, config, delayVars, parseVars, workerVars, tokenVars, storeVars, jobVars>>

RetryHead   == RetryHeadK   /\ UNCHANGED noRetryVars
RetryInvoke == RetryInvokeK /\ UNCHANGED noRetryVars
SleepCheck  == SleepCheckK  /\ UNCHANGED noRetryVars
SleepTick   == SleepTickK   /\ UNCHANGED noRetryVars

(***************************************************************************)
(* execute_with_retry run on its own, around an arbitrary func             *)
(***************************************************************************)
RetryBaseConfigs ==
    { [max_retries |-> 0, initial_delay |-> Frac(1, 1), max_delay |-> Frac(60, 1),
       exponential_base |-> Frac(2, 1), jitter |-> FALSE,
       retry_on_rate_limit |-> TRUE, retry_on_server_error |-> TRUE],
      [max_retries |-> 0, initial_delay |-> Frac(3, 10), max_delay |-> Frac(1, 2),
       exponential_base |-> Frac(3, 2), jitter |-> TRUE,
       retry_on_rate_limit |-> TRUE, retry_on_server_error |-> FALSE],
      [max_retries |-> 0, initial_delay |-> Frac(1, 20), max_delay |-> Frac(1, 20),
       exponential_base |-> Frac(1, 1), jitter |-> FALSE,
       retry_on_rate_limit |-> FALSE, retry_on_server_error |-> TRUE],
      [max_retries |-> 0, initial_delay |-> Frac(1, 10), max_delay |-> Frac(1, 2),
       exponential_base |-> Frac(2, 1), jitter |-> FALSE,
       retry_on_rate_limit |-> FALSE, retry_on_server_error |-> FALSE] }

RetryConfigs_Negative ==
    { [c EXCEPT !.max_retries = m] : c \in RetryBaseConfigs, m \in (-1)..MaxRetries }

RetryConfigs ==
    { [c EXCEPT !.max_retries = m] : c \in RetryBaseConfigs, m \in 0..MaxRetries }

RetryInit ==
    /\ IdleCodec /\ IdleDelay /\ IdleStore /\ IdleJob
    /\ IdleParse /\ IdleWorkers /\ IdleTokens
    /\ handler \in Handlers
    /\ config \in RetryConfigs
    /\ rpc = "head"
    /\ attempt = 0
    /\ last_error = NoError
    /\ delay = Frac(0, 1)
    /\ slept = 0
    /\ raised = NoError
    /\ should_stop = FALSE
    /\ op_calls = 0
    /\ retry_log = <<>>
    /\ waits = 0
    /\ stop_in_backoff = FALSE
    /\ calls_after_stop = 0
    /\ sleeps_after_stop = 0

OpReturns == RetryReturnK /\ UNCHANGED noRetryVars

OpRaises == \E e \in ErrorSamples : RetryExceptK(e) /\ UNCHANGED noRetryVars

Stop == rpc \notin {"returned", "raised", "interrupted"} /\ StopK /\ UNCHANGED noRetryVars

RetryNext ==
    \/ RetryHead
    \/ RetryInvoke
    \/ OpReturns
    \/ OpRaises
    \/ SleepCheck
    \/ SleepTick
    \/ Stop

SpecRetry == RetryInit /\ [][RetryNext]_vars

(***************************************************************************)
(* C5  One execute_with_retry run invokes the operation at most            *)
(* max_retries + 1 times; a failure on the last allowed attempt is         *)
(* re-raised with no further on_retry call and no further wait.            *)
(***************************************************************************)
C5_BoundedAttempts ==
    /\ op_calls <= config.max_retries + 1
    /\ rpc \in {"sleep_check", "sleeping"} => attempt < config.max_retries
    /\ Len(retry_log) = waits
    /\ waits <= config.max_retries
    /\ rpc = "raised" => raised = last_error

C5_Witness ==
    /\ rpc = "raised"
    /\ config.max_retries >= 1
    /\ attempt = config.max_retries
    /\ op_calls = config.max_retries + 1
    /\ is_retryable_error(last_error)

(***************************************************************************)
(* C6  An error that is_retryable_error classifies as not retryable is     *)
(* re-raised on the attempt that produced it: no further invocation, no    *)
(* on_retry call and no backoff wait for it.                               *)
(***************************************************************************)
C6_FatalImmediately ==
    (last_error # NoError /\ ~is_retryable_error(last_error)) =>
        /\ rpc = "raised"
        /\ raised = last_error
        /\ op_calls = attempt + 1
        /\ Len(retry_log) = attempt
        /\ waits = attempt

C6_Witness ==
    /\ rpc = "raised"
    /\ ~is_retryable_error(last_error)
    /\ attempt >= 1
    /\ attempt < config.max_retries

(***************************************************************************)
(* C7  When the stop flag is set while execute_with_retry waits out a      *)
(* backoff delay, no further time.sleep tick is begun, the operation is    *)
(* not invoked again, and the run can only end with the interrupt.         *)
(***************************************************************************)
C7_CancelInBackoff ==
    stop_in_backoff =>
        /\ sleeps_after_stop = 0
        /\ calls_after_stop = 0
        /\ rpc \in {"sleeping", "sleep_check", "head", "interrupted"}

\* interrupted with more than one tick of the delay still to wait
C7_Witness ==
    /\ stop_in_backoff
    /\ rpc = "interrupted"
    /\ FLt(Frac(slept + 2, 10), delay)

(***************************************************************************)
(* The progress store driven by arbitrary create_state and update_progress *)
(* calls                                                                   *)
(***************************************************************************)
noStoreVars == <<codecVars, handler, config, delayVars, parseVars, workerVars, tokenVars, retryVars, jobVars>>

StoreInit ==
    /\ IdleCodec /\ IdleDelay /\ IdleRetry /\ IdleConfig /\ IdleJob
    /\ IdleParse /\ IdleWorkers /\ IdleTokens
    /\ IdleStore

CreateState ==
    /\ CreateStateK(current_file, selected_track_id, MaxLines)
    /\ UNCHANGED noStoreVars

UpdateProgress ==
    /\ \E nt \in NewLists :
          /\ current_state # <<>> =>
                 current_state[1].prompt_tokens_used + 1 <= MaxTokens
          /\ UpdateProgressK(nt, get_current_batch_index + 1, 1, 1)
    /\ UNCHANGED noStoreVars

StoreNext == CreateState \/ UpdateProgress

SpecStore == StoreInit /\ [][StoreNext]_vars


(***************************************************************************)
(* Translator.translate_all driven by SubAutoApp._run_translation, one     *)
(* worker thread at a time                                                 *)
(***************************************************************************)
JobConfigs ==
    { [max_retries |-> m, initial_delay |-> Frac(1, 10), max_delay |-> Frac(1, 10),
       exponential_base |-> Frac(1, 1), jitter |-> FALSE,
       retry_on_rate_limit |-> TRUE, retry_on_server_error |-> TRUE] : m \in 0..1 }

Running == {"loop_head", "pause_check", "pause_sleep", "batch_start", "in_batch"}

\* self.active_translator: set by the worker, cleared by cancel and at its end
ActiveTranslator == pc \in Running /\ ~should_stop

total_batches == NumBatches(batch_size)

CurrentBatch == Batch(batch_size, batch_idx)

\* no execute_with_retry frame
RetryFrame(position) ==
    /\ rpc' = position
    /\ attempt' = 0
    /\ last_error' = NoError
    /\ delay' = Frac(0, 1)
    /\ slept' = 0
    /\ raised' = NoError
    /\ op_calls' = 0
    /\ retry_log' = <<>>
    /\ waits' = 0
    /\ stop_in_backoff' = FALSE
    /\ sleeps_after_stop' = 0

\* the application before the first job, for any configuration
JobStartState ==
    /\ IdleCodec /\ IdleDelay /\ IdleStore
    /\ IdleParse /\ IdleWorkers /\ IdleTokens
    /\ handler = PipelineHandler
    /\ rpc = "idle"
    /\ attempt = 0
    /\ last_error = NoError
    /\ delay = Frac(0, 1)
    /\ slept = 0
    /\ raised = NoError
    /\ should_stop = FALSE
    /\ op_calls = 0
    /\ retry_log = <<>>
    /\ waits = 0
    /\ stop_in_backoff = FALSE
    /\ calls_after_stop = 0
    /\ sleeps_after_stop = 0
    /\ pc = "idle"
    /\ runs = 0
    /\ batch_size \in 1..MaxLines
    /\ batch_idx = 0
    /\ all_translations = <<>>
    /\ errors = <<>>
    /\ completed_indices = {}
    /\ context_lines = <<>>
    /\ token_usage = ZeroTokens
    /\ response = <<>>
    /\ is_paused = FALSE
    /\ app_should_cancel = FALSE
    /\ app_is_paused = FALSE
    /\ stopped = FALSE
    /\ failed_batches = {}
    /\ batches_seen = {}
    /\ loaded_indices = {}
    /\ interrupted_after = 0

JobInit ==
    /\ JobStartState
    /\ config \in JobConfigs
    /\ is_configured \in BOOLEAN
    /\ oracle = <<>>

\* _run_translation up to the batch loop of translate_all: resume check,
\* create_state when not resuming, a new Translator, translate_all lines 656-688
RunTranslationK ==
    LET hr     == has_resumable_state(current_file)
        resume == hr.result /\ load.state[1].track_id = selected_track_id
        cs1    == IF resume THEN load.cs
                  ELSE <<NewState(current_file, selected_track_id, Len(Lines))>>
    IN  /\ current_state' = cs1
        /\ state_file' = IF resume THEN state_file ELSE save(cs1, state_file)
        /\ UNCHANGED <<disk, query, resumable>>
        /\ last_new' = <<>>
        /\ replayed' = FALSE
        /\ replay_kept' = TRUE
        /\ completed_indices' = IndexSet(cs1[1].completed_translations)
        /\ all_translations' = SortByIndex(cs1[1].completed_translations)
        /\ token_usage' = TokenAdd(ZeroTokens, cs1[1].prompt_tokens_used,
                                   cs1[1].completion_tokens_used)
        /\ errors' = <<>>
        /\ context_lines' = <<>>
        /\ batch_idx' = 0
        /\ response' = <<>>
        /\ should_stop' = FALSE
        /\ is_paused' = FALSE
        /\ stopped' = FALSE
        /\ failed_batches' = {}
        /\ batches_seen' = {}
        /\ loaded_indices' = IndexSet(cs1[1].completed_translations)
        /\ runs' = runs + 1
        /\ pc' = "loop_head"
        /\ RetryFrame("idle")
        /\ calls_after_stop' = 0
        /\ UNCHANGED <<codecVars, handler, config, delayVars, parseVars, workerVars, tokenVars, batch_size,
                       is_configured, oracle>>

\* _start_translation: the first worker
StartTranslation ==
    /\ pc = "idle"
    /\ RunTranslationK
    /\ UNCHANGED <<app_should_cancel, app_is_paused, interrupted_after>>

\* _do_resume, from the resume button or the second press of pause, once the
\* earlier worker has ended
ResumeTranslation ==
    /\ pc = "aborted"
    /\ runs < MaxRuns
    /\ app_is_paused' = FALSE
    /\ app_should_cancel' = FALSE
    /\ interrupted_after' = batch_idx
    /\ RunTranslationK

\* the loop head: the loop's end and the should_stop break both lead to the
\* final sort and the final progress callback
JobLoopHead ==
    /\ pc = "loop_head"
    /\ IF batch_idx >= total_batches \/ should_stop
       THEN /\ stopped' = (batch_idx < total_batches)
            /\ all_translations' = SortByIndex(all_translations)
            /\ pc' = IF app_should_cancel THEN "aborted" ELSE "done"
       ELSE /\ pc' = "pause_check"
            /\ UNCHANGED <<stopped, all_translations>>
    /\ UNCHANGED <<codecVars, handler, config, delayVars, parseVars, workerVars, tokenVars, retryVars, storeVars,
                   runs, batch_size, is_configured, batch_idx, errors,
                   completed_indices, context_lines, token_usage, response,
                   is_paused, app_should_cancel, app_is_paused, failed_batches,
                   batches_seen,
                   loaded_indices, oracle,
                   interrupted_after>>

\* while self.is_paused: if self.should_stop: break; time.sleep(0.5)
JobPauseCheck ==
    /\ pc = "pause_check"
    /\ pc' = IF is_paused /\ ~should_stop THEN "pause_sleep" ELSE "batch_start"
    /\ UNCHANGED <<codecVars, handler, config, delayVars, parseVars, workerVars, tokenVars, retryVars, storeVars,
                   runs, batch_size, is_configured, batch_idx, all_translations,
                   errors, completed_indices, context_lines, token_usage,
                   response, is_paused, app_should_cancel, app_is_paused,
                   stopped, failed_batches, batches_seen,
                   loaded_indices, oracle,
                   interrupted_after>>

JobPauseSleep ==
    /\ pc = "pause_sleep"
    /\ pc' = "pause_check"
    /\ UNCHANGED <<codecVars, handler, config, delayVars, parseVars, workerVars, tokenVars, retryVars, storeVars,
                   runs, batch_size, is_configured, batch_idx, all_translations,
                   errors, completed_indices, context_lines, token_usage,
                   response, is_paused, app_should_cancel, app_is_paused,
                   stopped, failed_batches, batches_seen,
                   loaded_indices, oracle,
                   interrupted_after>>


FailBatchK_Stores(message) ==
    /\ errors' = ErrorsAfterFailure(errors, batch_idx, message)
    /\ all_translations' = all_translations \o Originals(CurrentBatch, completed_indices)
    /\ failed_batches' = failed_batches \cup
           { [batch |-> batch_idx,
              missing |-> LineIndices(CurrentBatch) \ completed_indices,
              error |-> raised,
              calls |-> op_calls,
              retries |-> Len(retry_log),
              models |-> ModelsCalled(op_calls)] }
    /\ batches_seen' = batches_seen \cup {batch_idx}
    /\ batch_idx' = batch_idx + 1
    /\ pc' = "loop_head"
    /\ UpdateProgressK(Originals(CurrentBatch, completed_indices), batch_idx, 0, 0)
    /\ UNCHANGED <<completed_indices, context_lines, token_usage>>

\* lines 588-601: the TranslationResult translate_batch returns for a parsed
\* response; error_message is "" for None
TranslationResult(translated, lines) ==
    [success |-> TRUE,
     translated_lines |-> translated,
     error_message |-> IF Len(translated) = Len(lines) THEN "" ELSE "Partial"]

\* lines 754-764: the batch is recorded as failed, the job goes on
FailBatchK(message) ==
    /\ errors' = ErrorsAfterFailure(errors, batch_idx, message)
    /\ all_translations' = all_translations \o Originals(CurrentBatch, completed_indices)
    /\ failed_batches' = failed_batches \cup
           { [batch |-> batch_idx,
              missing |-> LineIndices(CurrentBatch) \ completed_indices,
              error |-> raised,
              calls |-> op_calls,
              retries |-> Len(retry_log),
              models |-> ModelsCalled(op_calls)] }
    /\ batches_seen' = batches_seen \cup {batch_idx}
    /\ batch_idx' = batch_idx + 1
    /\ pc' = "loop_head"
    /\ UNCHANGED <<completed_indices, context_lines, token_usage, storeVars>>

\* lines 727-752: a result with success=True, complete or partial
MergeBatchK(response_text) ==
    LET translated == parse_response(response_text, CurrentBatch)
        new_translations == NewTranslations(translated, completed_indices)
        prompt == estimated_prompt_tokens(CurrentBatch)
        completion == estimated_completion_tokens(response_text)
    IN  /\ all_translations' = all_translations \o new_translations
        /\ completed_indices' = completed_indices \cup IndexSet(new_translations)
        /\ token_usage' = TokenAdd(token_usage, prompt, completion)
        /\ UpdateProgressK(new_translations, batch_idx, prompt, completion)
        /\ context_lines' = LastThree(CurrentBatch)
        /\ batches_seen' = batches_seen \cup {batch_idx}
        /\ batch_idx' = batch_idx + 1
        /\ pc' = "loop_head"
        /\ UNCHANGED <<errors, failed_batches>>

AlreadyCompleted_Never(batch, completed) == FALSE

\* lines 701-703: batch_indices.issubset(completed_indices)
AlreadyCompleted(batch, completed) == LineIndices(batch) \subseteq completed

\* lines 705-725 and translate_batch up to execute_with_retry: the skip of a
\* completed batch, the progress callback, the is_configured check
JobBatchStart ==
    /\ pc = "batch_start"
    /\ IF AlreadyCompleted(CurrentBatch, completed_indices)
       THEN /\ context_lines' = LastThree(CurrentBatch)
            /\ batches_seen' = batches_seen \cup {batch_idx}
            /\ batch_idx' = batch_idx + 1
            /\ pc' = "loop_head"
            /\ UNCHANGED <<retryVars, storeVars, all_translations, errors,
                           completed_indices, token_usage, failed_batches>>
       ELSE IF app_should_cancel
       THEN /\ pc' = "aborted"
            /\ UNCHANGED <<retryVars, storeVars, batch_idx, all_translations,
                           errors, completed_indices, context_lines,
                           token_usage, failed_batches, batches_seen>>
       ELSE IF ~is_configured
       THEN /\ FailBatchK("Provider not configured. Please validate connection first.")
            /\ UNCHANGED retryVars
       ELSE /\ RetryFrame("head")
            /\ UNCHANGED calls_after_stop
            /\ pc' = "in_batch"
            /\ UNCHANGED <<should_stop, storeVars, batch_idx, all_translations,
                           errors, completed_indices, context_lines,
                           token_usage, failed_batches, batches_seen>>
    /\ UNCHANGED <<codecVars, handler, config, delayVars, parseVars, workerVars, tokenVars, runs, batch_size,
                   is_configured, response, is_paused, app_should_cancel,
                   app_is_paused, stopped, loaded_indices, oracle,
                   interrupted_after>>

\* do_translation: provider.generate_content returns
ProviderResponds ==
    /\ pc = "in_batch"
    /\ \E r \in Responses \cup {EmptyResponse} :
          IF r = EmptyResponse
          THEN RetryExceptK(EmptyResponseError) /\ UNCHANGED response
          ELSE IF should_stop
          THEN RetryInterruptK /\ UNCHANGED response
          ELSE RetryReturnK /\ response' = r
    /\ UNCHANGED <<codecVars, handler, config, delayVars, parseVars, workerVars, tokenVars, storeVars, pc, runs,
                   batch_size, is_configured, batch_idx, all_translations,
                   errors, completed_indices, context_lines, token_usage,
                   is_paused, app_should_cancel, app_is_paused, stopped,
                   failed_batches, batches_seen,
                   loaded_indices, oracle,
                   interrupted_after>>

\* do_translation: provider.generate_content raises
ProviderRaises ==
    /\ pc = "in_batch"
    /\ \E e \in ProviderErrors : RetryExceptK(e)
    /\ UNCHANGED noRetryVars

\* translate_batch after execute_with_retry, and the rest of the loop body
JobBatchEnd ==
    /\ pc = "in_batch"
    /\ rpc \in {"returned", "raised", "interrupted"}
    /\ CASE rpc = "returned" -> MergeBatchK(response)
         [] rpc = "raised"   -> FailBatchK(raised.msg)
         [] OTHER            ->
               /\ pc' = "aborted"
               /\ UNCHANGED <<storeVars, batch_idx, all_translations, errors,
                              completed_indices, context_lines, token_usage,
                              failed_batches, batches_seen>>
    /\ RetryFrame("idle")
    /\ UNCHANGED calls_after_stop
    /\ response' = <<>>
    /\ UNCHANGED <<codecVars, handler, config, delayVars, parseVars, workerVars, tokenVars, should_stop, runs,
                   batch_size, is_configured, is_paused, app_should_cancel,
                   app_is_paused, stopped, loaded_indices, oracle,
                   interrupted_after>>

\* _cancel_translation
CancelTranslation ==
    /\ ~app_should_cancel \/ ActiveTranslator
    /\ app_should_cancel' = TRUE
    /\ IF ActiveTranslator
       THEN /\ should_stop' = TRUE
            /\ stop_in_backoff' = (rpc \in {"sleep_check", "sleeping"})
       ELSE UNCHANGED <<should_stop, stop_in_backoff>>
    /\ UNCHANGED <<codecVars, handler, config, delayVars, parseVars, workerVars, tokenVars, storeVars, rpc,
                   attempt, last_error, delay, slept, raised, op_calls,
                   retry_log, waits, calls_after_stop, sleeps_after_stop, pc,
                   runs, batch_size, is_configured, batch_idx, all_translations,
                   errors, completed_indices, context_lines, token_usage,
                   response, is_paused, app_is_paused, stopped, failed_batches,
                   batches_seen,
                   loaded_indices, oracle,
                   interrupted_after>>

\* _pause_translation, first press
PauseTranslation ==
    /\ pc # "idle"
    /\ ~app_is_paused
    /\ app_is_paused' = TRUE
    /\ app_should_cancel' = TRUE
    /\ is_paused' = IF ActiveTranslator THEN TRUE ELSE is_paused
    /\ UNCHANGED <<codecVars, handler, config, delayVars, parseVars, workerVars, tokenVars, retryVars, storeVars,
                   pc, runs, batch_size, is_configured, batch_idx,
                   all_translations, errors, completed_indices, context_lines,
                   token_usage, response, stopped, failed_batches, batches_seen,
                   loaded_indices, oracle,
                   interrupted_after>>

\* clear(): the session file after the call; os.remove can fail
clear(file) ==
    IF file.exists /\ disk # "denied" THEN NoFile ELSE file

\* the review of the finished translation ends: _on_review_discarded, or
\* _finalize_merge after a successful merge, call state_manager.clear()
ReviewFinished ==
    /\ pc = "done"
    /\ pc' = "reviewed"
    /\ current_state' = <<>>
    /\ state_file' = clear(state_file)
    /\ UNCHANGED <<disk, last_new, replayed, replay_kept, query, resumable>>
    /\ UNCHANGED <<codecVars, handler, config, delayVars, parseVars, workerVars, tokenVars, retryVars, runs,
                   batch_size, is_configured, batch_idx, all_translations,
                   errors, completed_indices, context_lines, token_usage,
                   response, is_paused, app_should_cancel, app_is_paused,
                   stopped, failed_batches, batches_seen, loaded_indices,
                   oracle, interrupted_after>>

\* the disk stops taking writes
DiskFails ==
    /\ disk = "ok"
    /\ disk' \in {"denied", "full"}
    /\ UNCHANGED <<current_state, state_file, last_new, replayed, replay_kept,
                   query, resumable>>
    /\ UNCHANGED noStoreVars

JobNext ==
    \/ StartTranslation
    \/ ResumeTranslation
    \/ JobLoopHead
    \/ JobPauseCheck
    \/ JobPauseSleep
    \/ JobBatchStart
    \/ RetryHead
    \/ RetryInvoke
    \/ ProviderResponds
    \/ ProviderRaises
    \/ SleepCheck
    \/ SleepTick
    \/ JobBatchEnd
    \/ CancelTranslation
    \/ PauseTranslation
    \/ ReviewFinished
    \/ DiskFails

SpecJob == JobInit /\ [][JobNext]_vars

JobTypeOK ==
    /\ pc \in Running \cup {"idle", "done", "aborted", "reviewed"}
    /\ batch_idx \in 0..total_batches
    /\ pc \in {"pause_check", "pause_sleep", "batch_start", "in_batch"}
           => batch_idx < total_batches
    /\ (rpc # "idle") => pc = "in_batch"

LineCount(translations, i) ==
    Cardinality({ k \in 1..Len(translations) : translations[k][1] = i })

OriginalText(i) == Lines[CHOOSE k \in 1..Len(Lines) : Lines[k].index = i].text

(***************************************************************************)
(* C1  When translate_all returns from a run that was not cancelled, the   *)
(* merged translation list holds every input line index exactly once,      *)
(* whatever mix of complete, partially parsed and failed batches the run    *)
(* went through.                                                           *)
(***************************************************************************)
C1_EveryIndexOnce ==
    (pc = "done" /\ ~stopped /\ ~should_stop) =>
        \A i \in LineIndices(Lines) : LineCount(all_translations, i) = 1

(***************************************************************************)
(* C9  A batch whose provider call ends in a fatal error does not abort    *)
(* the job: the errors list holds exactly one message per failed batch,    *)
(* the worker is only ever aborted by a cancel or pause request, and a run  *)
(* that returns has gone through every batch.                              *)
(***************************************************************************)
C9_FailureDoesNotAbort ==
    /\ Len(errors) = Cardinality(failed_batches)
    /\ { errors[k][1] : k \in 1..Len(errors) } = { f.batch + 1 : f \in failed_batches }
    /\ pc = "aborted" => app_should_cancel
    /\ (pc = "done" /\ ~stopped) => batches_seen = 0..(total_batches - 1)

C9_Witness ==
    /\ pc = "done"
    /\ ~stopped
    /\ total_batches >= 2
    /\ \E f \in failed_batches :
          /\ f.batch = 0
          /\ f.calls = config.max_retries + 1
          /\ f.calls >= 2
    /\ LineIndices(Batch(batch_size, total_batches - 1)) \subseteq completed_indices

(***************************************************************************)
(* C10  For every batch recorded as failed, the merged output holds, for   *)
(* each line of the batch that was not completed before, exactly one entry  *)
(* with that index, and it is the pair (index, original text).             *)
(***************************************************************************)
C10_OriginalsKept ==
    \A f \in failed_batches : \A i \in f.missing :
        /\ LineCount(all_translations, i) = 1
        /\ \E k \in 1..Len(all_translations) :
              all_translations[k] = <<i, OriginalText(i)>>

C10_Witness ==
    /\ pc = "done"
    /\ \E f \in failed_batches :
          /\ f.missing # {}
          /\ f.missing # LineIndices(Batch(batch_size, f.batch))

\* the text the parser found first for index i
FirstText(translated_lines, i) ==
    translated_lines[CHOOSE k \in 1..Len(translated_lines) :
        /\ translated_lines[k][1] = i
        /\ \A j \in 1..(k - 1) : translated_lines[j][1] # i][2]

\* the step that ends a batch whose response parsed to fewer lines than it holds
ShortfallStep ==
    /\ pc = "in_batch"
    /\ rpc = "returned"
    /\ Len(parse_response(response, CurrentBatch)) < Len(CurrentBatch)
    /\ pc' # "in_batch"

(***************************************************************************)
(* C11  A response that parses to fewer lines than the batch holds is not  *)
(* an error: the step that ends the batch adds nothing to errors, merges    *)
(* every parsed line into the output and into the session of the progress  *)
(* store (and its file, when the disk takes the write), and moves on to     *)
(* the next batch.                                                         *)
(***************************************************************************)
C11_ShortfallAccepted ==
    [][ShortfallStep =>
          LET translated == parse_response(response, CurrentBatch)
          IN  /\ errors' = errors
              /\ failed_batches' = failed_batches
              /\ pc' = "loop_head"
              /\ batch_idx' = batch_idx + 1
              /\ \A i \in IndexSet(translated) :
                    /\ i \in completed_indices'
                    /\ LineCount(all_translations', i) = 1
                    /\ LineCount(current_state'[1].completed_translations, i) = 1
                    /\ i \notin completed_indices =>
                          \E k \in 1..Len(all_translations') :
                              all_translations'[k] = <<i, FirstText(translated, i)>>
              /\ disk = "ok" =>
                    state_file' = [exists |-> TRUE, valid |-> TRUE,
                                   data |-> <<to_dict(current_state'[1])>>]]_vars

C11_Witness ==
    /\ pc = "done"
    /\ runs = 1
    /\ errors = <<>>
    /\ completed_indices # {}
    /\ completed_indices # LineIndices(Lines)
    /\ completed_indices = get_completed_indices
    /\ state_file.valid

\* the step that leaves the head of the loop body for a batch that the
\* loaded session already holds
LoadedBatchStep ==
    /\ pc = "batch_start"
    /\ LineIndices(CurrentBatch) \subseteq loaded_indices
    /\ pc' # "batch_start"

(***************************************************************************)
(* C12  On resume the provider is never called for a batch all of whose    *)
(* line indices are in the completed set loaded from the progress store:    *)
(* no execute_with_retry frame ever exists for such a batch, and the step   *)
(* that meets it skips it and advances the loop to the next batch.         *)
(***************************************************************************)
C12_LoadedBatchSkipped ==
    /\ [](pc = "in_batch" \/ rpc # "idle" =>
             ~(LineIndices(CurrentBatch) \subseteq loaded_indices))
    /\ [][LoadedBatchStep =>
             /\ pc' = "loop_head"
             /\ batch_idx' = batch_idx + 1
             /\ rpc' = "idle"
             /\ op_calls' = op_calls
             /\ UNCHANGED <<all_translations, completed_indices, token_usage,
                            errors, storeVars>>]_vars

C12_Witness ==
    /\ runs = 2
    /\ 0 \in batches_seen
    /\ LineIndices(Batch(batch_size, 0)) \subseteq loaded_indices
    /\ batch_idx = 1
    /\ rpc = "in_call"

(***************************************************************************)
(* The job with a provider that answers the same batch with the same text  *)
(* every time, and a disk that takes every write                           *)
(***************************************************************************)
Oracles == [1..MaxLines -> Responses]

ResumeInit ==
    /\ JobStartState
    /\ config \in { c \in JobConfigs : c.max_retries = 0 }
    /\ is_configured = TRUE
    /\ oracle \in Oracles

\* do_translation: provider.generate_content returns the oracle's text
ProviderAnswers ==
    /\ pc = "in_batch"
    /\ IF should_stop
       THEN RetryInterruptK /\ UNCHANGED response
       ELSE RetryReturnK /\ response' = oracle[batch_idx + 1]
    /\ UNCHANGED <<codecVars, handler, config, delayVars, parseVars, workerVars, tokenVars, storeVars, pc, runs,
                   batch_size, is_configured, batch_idx, all_translations,
                   errors, completed_indices, context_lines, token_usage,
                   is_paused, app_should_cancel, app_is_paused, stopped,
                   failed_batches, batches_seen, loaded_indices, oracle,
                   interrupted_after>>

ResumeNext ==
    \/ StartTranslation
    \/ ResumeTranslation
    \/ JobLoopHead
    \/ JobPauseCheck
    \/ JobPauseSleep
    \/ JobBatchStart
    \/ RetryHead
    \/ RetryInvoke
    \/ ProviderAnswers
    \/ JobBatchEnd
    \/ CancelTranslation
    \/ PauseTranslation

SpecResume == ResumeInit /\ [][ResumeNext]_vars

\* the merged output of translate_all run from a fresh session to its end
RECURSIVE UninterruptedRun(_, _, _)
UninterruptedRun(b, translations, completed) ==
    IF b >= total_batches THEN SortByIndex(translations)
    ELSE LET new_translations ==
                 NewTranslations(parse_response(oracle[b + 1], Batch(batch_size, b)),
                                 completed)
         IN  UninterruptedRun(b + 1, translations \o new_translations,
                              completed \cup IndexSet(new_translations))

C13_ResumableAfterBatch ==
    (pc = "aborted" /\ batch_idx >= 1) => has_resumable_state(current_file).result

C13_EarlierBatchesNotSent ==
    (runs >= 2 /\ pc = "in_batch") => batch_idx >= interrupted_after

C13_SameOutput ==
    (runs >= 2 /\ pc = "done") => all_translations = UninterruptedRun(0, <<>>, {})

(***************************************************************************)
(* C13  Resume equivalence: a job interrupted after it went through k >= 1 *)
(* batches and resumed, with a provider that answers the same prompt with   *)
(* the same text, finds a resumable session, does not send batches 1..k to  *)
(* the provider again, and ends with the merged output of an uninterrupted  *)
(* run.                                                                    *)
(***************************************************************************)
C13_ResumeEquivalence ==
    /\ C13_ResumableAfterBatch
    /\ C13_EarlierBatchesNotSent
    /\ C13_SameOutput

\* no batch is completed by a step taken while the stop flag is up
C14_NoFurtherBatch ==
    [][(should_stop /\ runs' = runs) =>
          /\ completed_indices' = completed_indices
          /\ failed_batches' = failed_batches]_vars

\* translate_all is not left through an exception while the stop flag is up
C14_Returns == [](should_stop => pc # "aborted")

(***************************************************************************)
(* C14  Once cancellation is requested, at a batch boundary, while paused, *)
(* during a backoff wait or while a provider call is in flight, the job     *)
(* completes no further batch and translate_all returns what it has         *)
(* accumulated to its caller.                                              *)
(***************************************************************************)
C14_CancelReturnsResults == C14_NoFurtherBatch /\ C14_Returns

\* the job has stopped on the cancel flag
StoppedOnCancel == should_stop /\ pc \in {"aborted", "done"}

\* a step of the stop: the cancel request, or the step that ends the worker
StopStep ==
    \/ ~should_stop /\ should_stop'
    \/ should_stop /\ pc \in Running /\ pc' \in {"aborted", "done"}

\* the stop neither deletes nor changes the persisted session
C15_StopKeepsSession == [][StopStep => UNCHANGED <<state_file, current_state>>]_vars

C16_ClearedOnCompletion ==
    (pc = "done" /\ ~stopped /\ ~should_stop) =>
        ~has_resumable_state(current_file).result

(***************************************************************************)
(* has_resumable_state asked of a freshly built StateManager, for any      *)
(* session file left on disk                                               *)
(***************************************************************************)
Paths == {current_file, unreadable_file, missing_file}

StoredSessions ==
    { [NewState(current_file, t, MaxLines) EXCEPT
           !.source_file = f,
           !.source_file_hash = h,
           !.completed_translations = c] :
        t \in {1, selected_track_id},
        f \in Paths,
        h \in {"md5-movie", "md5-old", ""},
        c \in {<<>>, <<<<1, "tA">>>>} }

SessionFiles ==
    {NoFile, [exists |-> TRUE, valid |-> FALSE, data |-> <<>>]} \cup
    { [exists |-> TRUE, valid |-> v, data |-> <<to_dict(st)>>] :
          st \in StoredSessions, v \in BOOLEAN }

ProbeInit ==
    /\ IdleCodec /\ IdleDelay /\ IdleRetry /\ IdleConfig /\ IdleJob
    /\ IdleParse /\ IdleWorkers /\ IdleTokens
    /\ current_state = <<>>
    /\ state_file \in SessionFiles
    /\ disk = "ok"
    /\ last_new = <<>>
    /\ replayed = FALSE
    /\ replay_kept = TRUE
    /\ query \in Paths \cup {""}
    /\ resumable = <<>>

HasResumableState ==
    /\ resumable = <<>>
    /\ resumable' = <<has_resumable_state(query).result>>
    /\ current_state' = has_resumable_state(query).cs
    /\ UNCHANGED <<state_file, disk, last_new, replayed, replay_kept, query>>
    /\ UNCHANGED noStoreVars

ProbeNext == HasResumableState

SpecProbe == ProbeInit /\ [][ProbeNext]_vars

StoredSession == state_file.data[1]

NoStateFile == ~state_file.exists

ZeroCompleted ==
    state_file.valid /\ Len(StoredSession.completed_translations) = 0

PathMismatch ==
    state_file.valid /\ query # "" /\ StoredSession.source_file # query

\* the fingerprint of the given file can be computed and is not the stored one
FingerprintMismatch ==
    /\ state_file.valid
    /\ query # ""
    /\ calculate_file_hash(query) # ""
    /\ StoredSession.source_file_hash # calculate_file_hash(query)

SourceGone == state_file.valid /\ ~SourceExists(StoredSession.source_file)

SaveFailsInUpdate ==
    /\ disk # "ok"
    /\ pc = "in_batch"
    /\ rpc = "returned"
    /\ pc' # "in_batch"

\* the step in which create_state runs while the disk refuses the write
SaveFailsInCreate ==
    /\ disk # "ok"
    /\ runs' = runs + 1
    /\ ~has_resumable_state(current_file).result

(***************************************************************************)
(* C18  A failed write of the session file is not raised to the caller:    *)
(* create_state and update_progress return normally, the session in memory  *)
(* holds the update, and the job moves on to the next batch.               *)
(***************************************************************************)
C18_SaveErrorsSwallowed ==
    [][/\ SaveFailsInUpdate =>
             LET new_translations ==
                     NewTranslations(parse_response(response, CurrentBatch),
                                     completed_indices)
             IN  /\ pc' = "loop_head"
                 /\ batch_idx' = batch_idx + 1
                 /\ errors' = errors
                 /\ current_state' # <<>>
                 /\ \A k \in 1..Len(new_translations) :
                       \E j \in 1..Len(current_state'[1].completed_translations) :
                           current_state'[1].completed_translations[j] = new_translations[k]
                 /\ current_state'[1].current_batch_index = batch_idx
                 /\ current_state'[1].prompt_tokens_used =
                        current_state[1].prompt_tokens_used
                            + estimated_prompt_tokens(CurrentBatch)
       /\ SaveFailsInCreate =>
             /\ pc' = "loop_head"
             /\ current_state' =
                    <<NewState(current_file, selected_track_id, Len(Lines))>>]_vars

C18_Witness ==
    /\ disk # "ok"
    /\ pc = "done"
    /\ runs = 1
    /\ batches_seen = {0, 1}
    /\ get_completed_indices = LineIndices(Lines)
    /\ ~state_file.valid \/ state_file.data[1].completed_translations = <<>>

(***************************************************************************)
(* C19  No line for which should_skip_translation(style, text) is true is  *)
(* part of a prompt that is sent to the provider.                          *)
(***************************************************************************)
C19_SkippedNeverSent ==
    (pc = "in_batch" /\ rpc = "in_call") =>
        \A line \in PromptLines(CurrentBatch) :
            ~should_skip_translation(line.style, Chars(line))

(***************************************************************************)
(* _parse_response applied to response texts, for a batch of lines 1 and 2 *)
(***************************************************************************)
ExampleResponse ==
    <<"[2]", " ", "Halo", "\n", "[1]", " ", "Apa kabar", "\n", "[5]", " ", "garbage">>

ResponseTexts ==
    UNION { [1..n -> RespAlphabet] : n \in 0..MaxRespTokens } \cup
    { ExampleResponse,
      <<"[01]", " ", "Halo", "\n", "[2]", "\n">>,
      <<"Halo", " ", "[2]", "Halo", " ", "[1]", "\n", "[1]", "Halo">> }

ExpectedLines == SubSeq(Lines, 1, 2)

ParseInit ==
    /\ IdleCodec /\ IdleDelay /\ IdleRetry /\ IdleConfig /\ IdleStore /\ IdleJob
    /\ IdleWorkers /\ IdleTokens
    /\ raw_response \in ResponseTexts
    /\ results = <<>>

ParseResponse ==
    /\ results = <<>>
    /\ results' = <<parse_response(findall(raw_response, 1), ExpectedLines)>>
    /\ UNCHANGED <<codecVars, handler, config, delayVars, raw_response, workerVars,
                   tokenVars, retryVars, storeVars, jobVars>>

ParseNext == ParseResponse

SpecParse == ParseInit /\ [][ParseNext]_vars

\* the indices of the markers of a text, in the order they stand in it
MarkerSeq(t) ==
    LET IsMarker(tok) == tok \in Markers
        marks == SelectSeq(t, IsMarker)
    IN  [k \in 1..Len(marks) |-> MarkerIndex(marks[k])]

\* a is b with some elements left out
RECURSIVE IsSubSeq(_, _)
IsSubSeq(a, b) ==
    IF a = <<>> THEN TRUE
    ELSE IF b = <<>> THEN FALSE
    ELSE IF Head(a) = Head(b) THEN IsSubSeq(Tail(a), Tail(b))
    ELSE IsSubSeq(a, Tail(b))

(***************************************************************************)
(* C20  The response parser returns only pairs whose marker index is one   *)
(* of the batch's expected indices, in the order the markers stand in the   *)
(* response; for '[2] Halo / [1] Apa kabar / [5] garbage' with expected     *)
(* indices {1, 2} the index-sorted result is [(1, 'Apa kabar'), (2, 'Halo')]. *)
(***************************************************************************)
C20_ParserFilters ==
    results # <<>> =>
        LET parsed == results[1]
            expected == LineIndices(ExpectedLines)
            ExpectedIndex(i) == i \in expected
        IN  /\ \A k \in 1..Len(parsed) : parsed[k][1] \in expected
            /\ IsSubSeq([k \in 1..Len(parsed) |-> parsed[k][1]],
                        SelectSeq(MarkerSeq(raw_response), ExpectedIndex))
            /\ raw_response = ExampleResponse =>
                   SortByIndex(parsed) = << <<1, <<"Apa kabar">>>>, <<2, <<"Halo">>>> >>

C20_Witness ==
    /\ raw_response = ExampleResponse
    /\ results # <<>>
    /\ Len(results[1]) = 2

(***************************************************************************)
(* C21  A batch whose provider call fails with a policy-violation signal   *)
(* is never retried for that error (no on_retry call, no backoff wait) and  *)
(* is handed to a fallback model exactly once: of the models called for     *)
(* the batch, exactly one is not the primary model.                         *)
(***************************************************************************)
PolicyViolation(e) == e.msg = "API Error: content policy violation"

C21_PolicyToFallback ==
    /\ (pc = "in_batch" /\ PolicyViolation(last_error)) =>
           /\ rpc = "raised"
           /\ Len(retry_log) = attempt
           /\ waits = attempt
    /\ \A f \in failed_batches :
           PolicyViolation(f.error) =>
               /\ f.retries = f.calls - 1
               /\ Cardinality(f.models \ {current_model_name}) = 1

\* the part of C21 the code keeps: the error is re-raised at once
C21_NotRetried ==
    /\ (pc = "in_batch" /\ PolicyViolation(last_error)) =>
           /\ rpc = "raised"
           /\ Len(retry_log) = attempt
           /\ waits = attempt
    /\ \A f \in failed_batches :
           PolicyViolation(f.error) => f.retries = f.calls - 1

(***************************************************************************)
(* SubAutoApp's buttons and the worker threads they start: each thread     *)
(* runs _run_translation with a Translator of its own against the one      *)
(* StateManager.  A batch's provider call is one step of its worker.        *)
(***************************************************************************)
\* the positions of a worker inside translate_all
InTranslateAll ==
    {"loop_head", "pause_check", "pause_sleep", "batch_start", "in_batch", "final"}

\* the job's variables the worker threads do not use
jobRestVars == <<pc, runs, batch_size, is_configured, batch_idx, all_translations,
                 errors, completed_indices, context_lines, token_usage, response,
                 is_paused, stopped, failed_batches, batches_seen,
                 loaded_indices, oracle, interrupted_after>>

noWorkerVars == <<codecVars, handler, config, delayVars, parseVars, tokenVars,
                  retryVars, jobRestVars>>

\* the answer of the provider to a batch: every line, or the first line only
WorkerResponses(batch) ==
    { [k \in 1..n |-> <<batch[k].index, "tA">>] : n \in {1, Len(batch)} }

WorkersInit ==
    /\ JobStartState
    /\ config = DefaultConfig
    /\ is_configured = TRUE
    /\ oracle = <<>>

\* threading.Thread(target=self._run_translation).start()
StartThread(w) ==
    /\ workers[w].pc = "none"
    /\ \A v \in Workers : v < w => workers[v].pc # "none"

\* _start_translation: the start button is enabled while not is_processing
StartButton ==
    /\ ~is_processing
    /\ \E w \in Workers :
          /\ StartThread(w)
          /\ workers' = [workers EXCEPT ![w].pc = "setup"]
    /\ is_processing' = TRUE
    /\ UNCHANGED <<active_translator, app_should_cancel, app_is_paused, storeVars>>
    /\ UNCHANGED noWorkerVars

\* _do_resume
DoResumeK(ws) ==
    /\ app_is_paused' = FALSE
    /\ app_should_cancel' = FALSE
    /\ is_processing' = TRUE
    /\ \E w \in Workers :
          /\ StartThread(w)
          /\ workers' = [ws EXCEPT ![w].pc = "setup"]

\* _pause_translation, the pause button of the processing view
PauseButton ==
    /\ is_processing
    /\ IF app_is_paused
       THEN /\ DoResumeK(IF active_translator # 0
                         THEN [workers EXCEPT ![active_translator].is_paused = FALSE]
                         ELSE workers)
       ELSE /\ app_is_paused' = TRUE
            /\ app_should_cancel' = TRUE
            /\ workers' = IF active_translator # 0
                          THEN [workers EXCEPT ![active_translator].is_paused = TRUE]
                          ELSE workers
            /\ UNCHANGED is_processing
    /\ UNCHANGED <<active_translator, storeVars>>
    /\ UNCHANGED noWorkerVars

\* _resume_translation, the resume button shown in place of the start button
\* when a session was found at launch
ResumeButton ==
    /\ ~is_processing
    /\ load.state # <<>>
    /\ DoResumeK(workers)
    /\ UNCHANGED <<active_translator, storeVars>>
    /\ UNCHANGED noWorkerVars

\* _cancel_translation, the cancel button of the processing view
CancelButton ==
    /\ is_processing
    /\ app_should_cancel' = TRUE
    /\ is_processing' = FALSE
    /\ workers' = IF active_translator # 0
                  THEN [workers EXCEPT ![active_translator].should_stop = TRUE]
                  ELSE workers
    /\ active_translator' = 0
    /\ UNCHANGED <<app_is_paused, storeVars>>
    /\ UNCHANGED noWorkerVars

\* _run_translation up to the batch loop of translate_all
WorkerSetup(w) ==
    LET hr     == has_resumable_state(current_file)
        resume == hr.result /\ load.state[1].track_id = selected_track_id
        cs1    == IF resume THEN load.cs
                  ELSE <<NewState(current_file, selected_track_id, Len(Lines))>>
    IN  /\ workers[w].pc = "setup"
        /\ current_state' = cs1
        /\ state_file' = IF resume THEN state_file ELSE save(cs1, state_file)
        /\ last_new' = <<>>
        /\ replayed' = FALSE
        /\ replay_kept' = TRUE
        /\ active_translator' = w
        /\ workers' = [workers EXCEPT ![w] =
               [pc |-> "loop_head", is_paused |-> FALSE, should_stop |-> FALSE,
                batch_idx |-> 0,
                completed_indices |-> IndexSet(cs1[1].completed_translations),
                prompt_tokens |-> cs1[1].prompt_tokens_used,
                completion_tokens |-> cs1[1].completion_tokens_used]]
        /\ UNCHANGED <<disk, query, resumable, is_processing, app_should_cancel,
                       app_is_paused>>
        /\ UNCHANGED noWorkerVars

\* for batch_idx, batch in enumerate(batches): if self.should_stop: break
WorkerLoopHead(w) ==
    /\ workers[w].pc = "loop_head"
    /\ workers' = [workers EXCEPT ![w].pc =
           IF workers[w].batch_idx >= total_batches \/ workers[w].should_stop
           THEN "final" ELSE "pause_check"]
    /\ UNCHANGED <<active_translator, is_processing, app_should_cancel,
                   app_is_paused, storeVars>>
    /\ UNCHANGED noWorkerVars

StaysInPauseLoop_Never(wk) == FALSE

\* while self.is_paused: if self.should_stop: break
StaysInPauseLoop(wk) == wk.is_paused /\ ~wk.should_stop

\* while self.is_paused: if self.should_stop: break; time.sleep(0.5)
WorkerPauseCheck(w) ==
    /\ workers[w].pc \in {"pause_check", "pause_sleep"}
    /\ workers' = [workers EXCEPT ![w].pc =
           IF workers[w].pc = "pause_sleep" THEN "pause_check"
           ELSE IF StaysInPauseLoop(workers[w])
           THEN "pause_sleep" ELSE "batch_start"]
    /\ UNCHANGED <<active_translator, is_processing, app_should_cancel,
                   app_is_paused, storeVars>>
    /\ UNCHANGED noWorkerVars

\* the worker leaves _run_translation: finally: self.active_translator = None
WorkerEnds(w, how) ==
    /\ workers' = [workers EXCEPT ![w].pc = how]
    /\ active_translator' = 0

\* the skip of a completed batch, else the progress callback, which raises
\* KeyboardInterrupt when should_cancel, else translate_batch begins
WorkerBatchStart(w) ==
    LET wk == workers[w]
        batch == Batch(batch_size, wk.batch_idx)
    IN  /\ wk.pc = "batch_start"
        /\ IF AlreadyCompleted(batch, wk.completed_indices)
           THEN /\ workers' = [workers EXCEPT ![w].pc = "loop_head",
                                              ![w].batch_idx = @ + 1]
                /\ UNCHANGED active_translator
           ELSE IF app_should_cancel
           THEN WorkerEnds(w, "interrupted")
           ELSE /\ workers' = [workers EXCEPT ![w].pc = "in_batch"]
                /\ UNCHANGED active_translator
        /\ UNCHANGED <<is_processing, app_should_cancel, app_is_paused, storeVars>>
        /\ UNCHANGED noWorkerVars

\* translate_batch returns and the loop body ends, or the stop check of
\* execute_with_retry or do_translation raises KeyboardInterrupt
WorkerBatchEnd(w) ==
    LET wk == workers[w]
        batch == Batch(batch_size, wk.batch_idx)
    IN  /\ wk.pc = "in_batch"
        /\ \/ \E r \in WorkerResponses(batch) :
                 LET new_translations ==
                         NewTranslations(parse_response(r, batch), wk.completed_indices)
                 IN  /\ UpdateProgressK(new_translations, wk.batch_idx,
                                        estimated_prompt_tokens(batch),
                                        estimated_completion_tokens(r))
                     /\ workers' = [workers EXCEPT
                            ![w].pc = "loop_head",
                            ![w].batch_idx = @ + 1,
                            ![w].completed_indices = @ \cup IndexSet(new_translations),
                            ![w].prompt_tokens = @ + estimated_prompt_tokens(batch),
                            ![w].completion_tokens = @ + estimated_completion_tokens(r)]
                     /\ UNCHANGED active_translator
           \/ /\ workers' = [workers EXCEPT ![w].pc = "loop_head",
                                            ![w].batch_idx = @ + 1]
              /\ UNCHANGED <<active_translator, storeVars>>
           \/ /\ wk.should_stop
              /\ WorkerEnds(w, "interrupted")
              /\ UNCHANGED storeVars
        /\ UNCHANGED <<is_processing, app_should_cancel, app_is_paused>>
        /\ UNCHANGED noWorkerVars

\* the final progress callback, which raises when should_cancel, else
\* translate_all returns and the review editor is shown
WorkerFinal(w) ==
    /\ workers[w].pc = "final"
    /\ WorkerEnds(w, IF app_should_cancel THEN "interrupted" ELSE "returned")
    /\ UNCHANGED <<is_processing, app_should_cancel, app_is_paused, storeVars>>
    /\ UNCHANGED noWorkerVars

WorkersNext ==
    \/ StartButton
    \/ PauseButton
    \/ ResumeButton
    \/ CancelButton
    \/ \E w \in Workers :
          \/ WorkerSetup(w)
          \/ WorkerLoopHead(w)
          \/ WorkerPauseCheck(w)
          \/ WorkerBatchStart(w)
          \/ WorkerBatchEnd(w)
          \/ WorkerFinal(w)

SpecWorkers == WorkersInit /\ [][WorkersNext]_vars

\* the workers inside translate_all that no stop request has reached
Proceeding ==
    { w \in Workers : workers[w].pc \in InTranslateAll /\ ~workers[w].should_stop }

(***************************************************************************)
(* C22  At most one worker is running translate_all against the session   *)
(* file at any time: a start or resume never adds a worker while an        *)
(* earlier one can still proceed.                                          *)
(***************************************************************************)
C22_SingleWorker == Cardinality(Proceeding) <= 1

\* no on_retry call of the run got an error with a provider-suggested delay
NoSuggestedDelays ==
    \A i \in 1..Len(retry_log) : SuggestedDelay(retry_log[i][3]) = <<>>

\* the i-th on_retry call precedes the i-th wait and the attempt after it
RetryOrder ==
    /\ Len(retry_log) = waits
    /\ rpc \in {"sleep_check", "sleeping"} => Len(retry_log) = attempt + 1
    /\ rpc \in {"head", "call", "in_call", "returned"} => Len(retry_log) = attempt
    /\ \A i \in 1..Len(retry_log) : retry_log[i][1] = i

CappedPower(i) ==
    FMin(FMul(config.initial_delay, FPow(config.exponential_base, i - 1)),
         config.max_delay)

Is503(msg) == msg \in {"HTTP 503", "503 Service Unavailable"}

RetryExample ==
    (/\ config.initial_delay = Frac(1, 1)
     /\ config.exponential_base = Frac(2, 1)
     /\ Len(retry_log) = 2
     /\ Is503(retry_log[1][3]) /\ Is503(retry_log[2][3])) =>
        /\ retry_log[1][2] = Frac(1, 1)
        /\ retry_log[2][2] = Frac(2, 1)

\* C23 as stated: the i-th delay is min(initial_delay * base^(i-1), max_delay)
C23_Original ==
    (~config.jitter /\ NoSuggestedDelays) =>
        /\ RetryOrder
        /\ \A i \in 1..Len(retry_log) : retry_log[i][2] = CappedPower(i)
        /\ RetryExample

(***************************************************************************)
(* C23  With jitter disabled and no provider-suggested delay in the        *)
(* errors, an operation that fails k times with retryable errors and then   *)
(* succeeds has on_retry called exactly k times, the i-th call before the   *)
(* i-th wait and the next attempt, with attempt number i and delay          *)
(* max(0.1, min(initial_delay * base^(i-1), max_delay)); two 503 failures   *)
(* with initial_delay 1.0 and base 2.0 give the delays 1.0 and 2.0.         *)
(***************************************************************************)
C23_OnRetrySchedule ==
    (~config.jitter /\ NoSuggestedDelays) =>
        /\ RetryOrder
        /\ \A i \in 1..Len(retry_log) :
               retry_log[i][2] = FMax(MinDelay, CappedPower(i))
        /\ RetryExample

C23_Witness ==
    /\ rpc = "returned"
    /\ ~config.jitter
    /\ config.initial_delay = Frac(1, 1)
    /\ config.exponential_base = Frac(2, 1)
    /\ Len(retry_log) = 2
    /\ Is503(retry_log[1][3]) /\ Is503(retry_log[2][3])
    /\ retry_log[2][2] = Frac(2, 1)

(***************************************************************************)
(* C24  In the retry engine translate_batch runs, an error whose message   *)
(* carries a provider-suggested delay X is waited out for X * 1.1 s,       *)
(* floored at 0.1 s, whatever the attempt number and the RetryConfig.      *)
(***************************************************************************)
C24_SuggestedDelayApplied ==
    handler = PipelineHandler =>
        /\ \A i \in 1..Len(retry_log) :
               LET suggested == SuggestedDelay(retry_log[i][3])
               IN  suggested # <<>> =>
                       retry_log[i][2] = FMax(FMul(suggested[1], Frac(11, 10)), MinDelay)
        /\ (rpc \in {"sleep_check", "sleeping"} /\ SuggestedDelay(last_error.msg) # <<>>) =>
               delay = FMax(FMul(SuggestedDelay(last_error.msg)[1], Frac(11, 10)), MinDelay)

\* what C24 says holds of the class in retry_handler.py, which nothing imports
C24_OtherClass ==
    handler = "retry_handler" =>
        \A i \in 1..Len(retry_log) :
            LET suggested == SuggestedDelay(retry_log[i][3])
            IN  suggested # <<>> =>
                    retry_log[i][2] = FMax(FMul(suggested[1], Frac(11, 10)), MinDelay)

\* the positions of a worker between two batches
BatchBoundary == {"loop_head", "pause_check", "pause_sleep"}

\* the step is not one of worker w
OthersStep(w) == \E v \in Workers \ {w} : workers'[v] # workers[v]

(***************************************************************************)
(* C25  While a worker's is_paused flag is set and its should_stop flag is *)
(* not, the worker stays at the batch boundary once it is there: it starts  *)
(* no provider call and writes nothing to the session for a later batch;    *)
(* the batch that is in translate_batch when the flag is set runs to its    *)
(* end, and the next batch begins only after the flag is cleared.           *)
(***************************************************************************)
C25_PauseAtBoundary ==
    [][\A w \in Workers :
          LET wk == workers[w]
          IN  (wk.is_paused /\ ~wk.should_stop) =>
                  /\ wk.pc \in BatchBoundary =>
                         /\ workers'[w].pc \in BatchBoundary \cup {"final"}
                         /\ workers'[w].batch_idx = wk.batch_idx
                         /\ (workers'[w].pc = "final" => wk.batch_idx >= total_batches)
                         /\ (current_state' # current_state => OthersStep(w))
                  /\ (wk.pc = "in_batch" /\ workers'[w].pc # "in_batch") =>
                         /\ workers'[w].pc = "loop_head"
                         /\ workers'[w].batch_idx = wk.batch_idx + 1]_vars

\* a worker waits in the pause loop after the batch that was in flight was
\* merged and written
C25_Witness ==
    \E w \in Workers :
        /\ workers[w].pc = "pause_sleep"
        /\ workers[w].is_paused /\ ~workers[w].should_stop
        /\ workers[w].batch_idx = 1
        /\ total_batches = 2
        /\ current_state # <<>>
        /\ Len(current_state[1].completed_translations) = 1

\* has_resumable_state returned false for one of the four stale-session reasons
StaleRejected ==
    /\ resumable = <<FALSE>>
    /\ ZeroCompleted \/ PathMismatch \/ FingerprintMismatch \/ SourceGone

(***************************************************************************)
(* C26  When has_resumable_state returns false because of zero completed   *)
(* translations, a path or fingerprint mismatch or a missing source file,   *)
(* the stale state is cleared: current_state is None, a later load() finds  *)
(* no session and no later has_resumable_state call returns true.           *)
(***************************************************************************)
C26_StaleCleared ==
    StaleRejected =>
        /\ current_state = <<>>
        /\ load.state = <<>>
        /\ \A q \in Paths \cup {""} : ~has_resumable_state(q).result

\* the part of C26 the code keeps: the session is dropped from memory
C26_MemoryCleared == StaleRejected => current_state = <<>>

\* the session file is there and json.load or from_dict raises on it
Damaged == state_file.exists /\ ~state_file.valid

(***************************************************************************)
(* C27  On an unparseable or partially written session file load returns   *)
(* no state and has_resumable_state returns false, and nothing of the file  *)
(* reaches the session in memory.                                          *)
(***************************************************************************)
C27_DamagedFileIgnored ==
    Damaged =>
        /\ load.state = <<>>
        /\ load.cs = current_state
        /\ resumable # <<>> => (resumable = <<FALSE>> /\ current_state = <<>>)

C27_Witness ==
    /\ Damaged
    /\ state_file.data # <<>>
    /\ Len(state_file.data[1].completed_translations) >= 1
    /\ resumable = <<FALSE>>

\* the failed batches whose last provider error was a policy violation
PolicyFailures == { f \in failed_batches : PolicyViolation(f.error) }

\* the merged output holds line i once, with its original text
KeptOriginal(i) ==
    /\ LineCount(all_translations, i) = 1
    /\ \E k \in 1..Len(all_translations) : all_translations[k] = <<i, OriginalText(i)>>

\* a batch whose provider call ended with a policy violation is recorded as
\* failed by the step that ends it
PolicyBatchFails ==
    [][(/\ pc = "in_batch" /\ rpc = "raised" /\ PolicyViolation(raised)
        /\ pc' # "in_batch") =>
           /\ \E f \in failed_batches' : f.batch = batch_idx /\ PolicyViolation(f.error)
           /\ \E k \in 1..Len(errors') : errors'[k][1] = batch_idx + 1]_vars

\* C28 as stated: every line of the batch is in the output with its original text
C28_Original ==
    \A f \in PolicyFailures :
        /\ \A i \in LineIndices(Batch(batch_size, f.batch)) : KeptOriginal(i)
        /\ Cardinality(f.models \ {current_model_name}) <= 1

(***************************************************************************)
(* C28  A policy-violating batch for which no fallback model is available  *)
(* (or whose fallback resubmission fails) is marked failed, and each of its *)
(* lines that was not completed before is in the merged output with its     *)
(* untranslated original text; a model other than the primary one is       *)
(* called at most once for the batch.                                      *)
(***************************************************************************)
C28_FailedKeepsOriginals ==
    /\ [](\A f \in PolicyFailures :
             /\ \A i \in f.missing : KeptOriginal(i)
             /\ \E k \in 1..Len(errors) : errors[k][1] = f.batch + 1
             /\ Cardinality(f.models \ {current_model_name}) <= 1)
    /\ PolicyBatchFails

C28_Witness ==
    /\ pc = "done"
    /\ fallback_model = ""
    /\ \E f \in PolicyFailures :
          /\ f.missing = LineIndices(Batch(batch_size, f.batch))
          /\ Cardinality(f.missing) = 2
          /\ f.models = {current_model_name}

(***************************************************************************)
(* TokenUsage: the worker thread writes the three counters one assignment  *)
(* at a time (reset and add under TokenUsage._lock, the seeding from a      *)
(* resumed session without it); the GUI thread reads them for               *)
(* set_token_stats without taking the lock.                                 *)
(***************************************************************************)
\* the job's variables other than token_usage
jobNoTokenVars == <<pc, runs, batch_size, is_configured, batch_idx, all_translations,
                    errors, completed_indices, context_lines, response,
                    is_paused, app_should_cancel, app_is_paused, stopped,
                    failed_batches, batches_seen, loaded_indices, oracle,
                    interrupted_after>>

noTokenVars == <<codecVars, handler, config, delayVars, parseVars, workerVars,
                 retryVars, storeVars, jobNoTokenVars>>

TokensInit ==
    /\ IdleCodec /\ IdleDelay /\ IdleRetry /\ IdleConfig /\ IdleStore /\ IdleJob
    /\ IdleParse /\ IdleWorkers /\ IdleTokens

\* translate_all line 660: self.token_usage.reset(), three assignments
TokenReset ==
    /\ writer.pc \in {"idle", "reset_1", "reset_2"}
    /\ CASE writer.pc = "idle" ->
              /\ token_usage' = [token_usage EXCEPT !.prompt_tokens = 0]
              /\ writer' = [writer EXCEPT !.pc = "reset_1"]
         [] writer.pc = "reset_1" ->
              /\ token_usage' = [token_usage EXCEPT !.completion_tokens = 0]
              /\ writer' = [writer EXCEPT !.pc = "reset_2"]
         [] OTHER ->
              /\ token_usage' = [token_usage EXCEPT !.total_tokens = 0]
              /\ writer' = [writer EXCEPT !.pc = "reset_done"]
    /\ UNCHANGED displayed
    /\ UNCHANGED noTokenVars

\* lines 674-677: the counters of a resumed session, three assignments; the
\* session's counters are drawn
TokenSeed ==
    /\ writer.pc \in {"reset_done", "seed_1", "seed_2"}
    /\ CASE writer.pc = "reset_done" ->
              \E p \in 0..MaxTokens, c \in 0..MaxTokens :
                  /\ token_usage' = [token_usage EXCEPT !.prompt_tokens = p]
                  /\ writer' = [writer EXCEPT !.pc = "seed_1", !.completion = c]
         [] writer.pc = "seed_1" ->
              /\ token_usage' = [token_usage EXCEPT !.completion_tokens = writer.completion]
              /\ writer' = [writer EXCEPT !.pc = "seed_2", !.completion = 0]
         [] OTHER ->
              /\ token_usage' = [token_usage EXCEPT !.total_tokens =
                     token_usage.prompt_tokens + token_usage.completion_tokens]
              /\ writer' = [writer EXCEPT !.pc = "ready"]
    /\ UNCHANGED displayed
    /\ UNCHANGED noTokenVars

\* translate_batch line 573: self.token_usage.add(prompt, completion) is entered
TokenAddBegin ==
    /\ writer.pc = "ready"
    /\ writer.adds < MaxLines
    /\ \E p \in 1..MaxTokens, c \in 0..MaxTokens :
          writer' = [pc |-> "add_0", prompt |-> p, completion |-> c,
                     adds |-> writer.adds + 1]
    /\ UNCHANGED <<token_usage, displayed>>
    /\ UNCHANGED noTokenVars

\* TokenUsage.add lines 217-219, three assignments
TokenAddStep ==
    /\ writer.pc \in {"add_0", "add_1", "add_2"}
    /\ CASE writer.pc = "add_0" ->
              /\ token_usage' = [token_usage EXCEPT !.prompt_tokens = @ + writer.prompt]
              /\ writer' = [writer EXCEPT !.pc = "add_1"]
         [] writer.pc = "add_1" ->
              /\ token_usage' = [token_usage EXCEPT !.completion_tokens = @ + writer.completion]
              /\ writer' = [writer EXCEPT !.pc = "add_2"]
         [] OTHER ->
              /\ token_usage' = [token_usage EXCEPT !.total_tokens =
                     token_usage.prompt_tokens + token_usage.completion_tokens]
              /\ writer' = [writer EXCEPT !.pc = "ready", !.prompt = 0, !.completion = 0]
    /\ UNCHANGED displayed
    /\ UNCHANGED noTokenVars

\* the GUI thread runs the lambda progress_callback scheduled with after(0, ...):
\* it reads the three attributes, taking no lock
TokenRead ==
    /\ writer.pc # "idle"
    /\ displayed' = <<token_usage.prompt_tokens, token_usage.completion_tokens,
                      token_usage.total_tokens>>
    /\ UNCHANGED <<token_usage, writer>>
    /\ UNCHANGED noTokenVars

TokensNext ==
    \/ TokenReset
    \/ TokenSeed
    \/ TokenAddBegin
    \/ TokenAddStep
    \/ TokenRead

SpecTokens == TokensInit /\ [][TokensNext]_vars

(***************************************************************************)
(* C29  Whatever a concurrent reader observes while the worker resets,     *)
(* seeds or accumulates the counters, total_tokens equals prompt_tokens +   *)
(* completion_tokens.                                                      *)
(***************************************************************************)
C29_TotalIsSum ==
    /\ token_usage.total_tokens =
           token_usage.prompt_tokens + token_usage.completion_tokens
    /\ displayed # <<>> => displayed[3] = displayed[1] + displayed[2]

\* between two writes of the worker the counters agree
C29_QuiescentSum ==
    writer.pc \in {"idle", "reset_done", "ready", "add_0"} =>
        token_usage.total_tokens =
            token_usage.prompt_tokens + token_usage.completion_tokens

\* the workers whose provider call is in flight
InFlight == { w \in Workers : workers[w].pc = "in_batch" }

\* worker w begins a provider call in this step
StartsCall(w) == workers[w].pc # "in_batch" /\ workers'[w].pc = "in_batch"

(***************************************************************************)
(* C30  Batches are processed strictly sequentially in input order: at     *)
(* most one provider call is in flight at any time, and a provider call    *)
(* for batch j starts only when no call is in flight and the loop that     *)
(* starts it has gone through every batch before j, one by one.            *)
(***************************************************************************)
C30_Sequential ==
    /\ [](Cardinality(InFlight) <= 1)
    /\ [][\A w \in Workers :
             /\ StartsCall(w) =>
                    /\ InFlight = {}
                    /\ workers[w].pc = "batch_start"
                    /\ workers'[w].batch_idx = workers[w].batch_idx
             /\ (workers[w].pc \in InTranslateAll /\ workers'[w].pc \in InTranslateAll) =>
                    workers'[w].batch_idx \in {workers[w].batch_idx,
                                               workers[w].batch_idx + 1}]_vars

\* each loop by itself goes through the batches in input order
C30_EachLoopInOrder ==
    [][\A w \in Workers :
         /\ StartsCall(w) =>
                /\ workers[w].pc = "batch_start"
                /\ workers'[w].batch_idx = workers[w].batch_idx
         /\ (workers[w].pc \in InTranslateAll /\ workers'[w].pc \in InTranslateAll) =>
                workers'[w].batch_idx \in {workers[w].batch_idx,
                                           workers[w].batch_idx + 1}]_vars

(***************************************************************************)
(* execute_with_retry under a scheduler that lets the thread run: each     *)
(* step of the handler is taken in the end, each call of func returns or   *)
(* raises, each time.sleep returns.  Nothing obliges another thread to set *)
(* the stop flag.                                                          *)
(***************************************************************************)
SpecRetryLive ==
    /\ SpecRetry
    /\ WF_vars(RetryHead)
    /\ WF_vars(RetryInvoke)
    /\ WF_vars(OpReturns \/ OpRaises)
    /\ WF_vars(SleepCheck)
    /\ WF_vars(SleepTick)

\* SUCCESS, FATAL_FAILURE, CANCELLED
Terminal == {"returned", "raised", "interrupted"}

(***************************************************************************)
(* C31  With max_retries >= 0 and an operation whose calls each terminate, *)
(* every execute_with_retry run reaches one terminal outcome and stays     *)
(* there: it returns only by a call of the operation returning, it raises  *)
(* the last error, or it raises the interrupt after the stop flag was set. *)
(***************************************************************************)
C31_OneTerminalOutcome ==
    /\ <>(rpc \in Terminal)
    /\ [][/\ rpc \in Terminal => rpc' = rpc
          /\ (rpc' = "returned" /\ rpc # "returned") =>
                 (rpc = "in_call" /\ op_calls >= 1 /\ raised' = NoError)
          /\ (rpc' = "raised" /\ rpc # "raised") =>
                 (raised' # NoError /\ raised' = last_error')
          /\ (rpc' = "interrupted" /\ rpc # "interrupted") => should_stop]_vars

\* a run that ends in success after every allowed retry was used
C31_Witness ==
    /\ rpc = "returned"
    /\ config.max_retries >= 1
    /\ op_calls = config.max_retries + 1
    /\ waits = config.max_retries

\* no index twice
UniqueIndices(translations) ==
    \A i \in 1..(MaxLines + 1) : LineCount(translations, i) <= 1

\* ascending by index
SortedByIndex(translations) ==
    \A j, k \in 1..Len(translations) :
        j < k => translations[j][1] <= translations[k][1]

(***************************************************************************)
(* C32  The list translate_all builds holds each line index at most once   *)
(* at every point of a run, fresh or resumed, and the list it returns is   *)
(* sorted by index, whatever the provider answered.                        *)
(***************************************************************************)
C32_ReturnedListUniqueSorted ==
    /\ UniqueIndices(all_translations)
    /\ pc = "done" => SortedByIndex(all_translations)

\* a resumed run returns after a failed batch and a merged one
C32_Witness ==
    /\ pc = "done"
    /\ runs = 2
    /\ failed_batches # {}
    /\ Len(all_translations) = Len(Lines)
    /\ \E k \in 1..Len(all_translations) :
          all_translations[k][2] # OriginalText(all_translations[k][1])

\* the lines this run kept the original text for
FailedLines == UNION { f.missing : f \in failed_batches }

\* this step records a batch as failed
FailStep == failed_batches' # failed_batches /\ failed_batches' # {}

(***************************************************************************)
(* C33  A failed batch leaves the StateManager's session and file as they  *)
(* were and adds no tokens; the lines it kept the original text for are in *)
(* no completed_translations for the rest of the run and are not among the *)
(* completed indices a resumed run starts with, and an index only becomes   *)
(* completed through a provider call that returned for its batch: a         *)
(* resumed job sends those lines again.                                     *)
(***************************************************************************)
C33_FailedBatchNotStored ==
    /\ [](FailedLines \cap get_completed_indices = {})
    /\ [][/\ FailStep =>
                 /\ current_state' = current_state
                 /\ state_file' = state_file
                 /\ token_usage' = token_usage
          /\ (pc = "aborted" /\ pc' = "loop_head") =>
                 /\ FailedLines \cap completed_indices' = {}
                 /\ \A b \in 0..(total_batches - 1) :
                       LineIndices(Batch(batch_size, b)) \cap FailedLines # {} =>
                           ~AlreadyCompleted(Batch(batch_size, b), completed_indices')
          /\ (pc \in Running /\ pc' \in Running /\ completed_indices' # completed_indices) =>
                 /\ pc = "in_batch" /\ rpc = "returned" /\ op_calls >= 1
                 /\ completed_indices' \ completed_indices \subseteq
                        LineIndices(CurrentBatch)]_vars

\* an interrupted run that can be resumed, with a failed batch and a stored one
C33_Witness ==
    /\ pc = "aborted"
    /\ runs < MaxRuns
    /\ failed_batches # {}
    /\ \E f \in failed_batches : f.calls >= 1
    /\ get_completed_translations # <<>>
    /\ has_resumable_state(current_file).result

\* the translator's running counters equal the session's
CountersAgree(prompt, completion) ==
    current_state # <<>> =>
        /\ prompt = current_state[1].prompt_tokens_used
        /\ completion = current_state[1].completion_tokens_used

(***************************************************************************)
(* C34  At every batch boundary of a run of translate_all over a           *)
(* StateManager that holds a session, the running prompt and completion    *)
(* counters of the run's Translator equal the session's prompt_tokens_used *)
(* and completion_tokens_used.                                             *)
(***************************************************************************)
C34_CountersAgree ==
    \A w \in Workers :
        workers[w].pc \in BatchBoundary \cup {"final"} =>
            CountersAgree(workers[w].prompt_tokens, workers[w].completion_tokens)

\* with one worker: between two batches of translate_all the counters agree
C34_SingleWorkerCounters ==
    pc \in {"loop_head", "pause_check", "pause_sleep", "batch_start", "done"} =>
        CountersAgree(token_usage.prompt_tokens, token_usage.completion_tokens)

(***************************************************************************)
(* C35  Once should_stop is set on the Translator, its translate_all       *)
(* starts at most one further provider call, wherever the flag falls       *)
(* between the batch loop, the pause wait and the retry loop; a call       *)
(* started after the flag never returns a result to the batch.             *)
(***************************************************************************)
C35_OneCallAfterCancel ==
    /\ calls_after_stop <= 1
    /\ (pc = "in_batch" /\ rpc = "returned") => calls_after_stop = 0
    /\ calls_after_stop >= 1 => should_stop

\* the run has ended after a call that slipped past the flag and failed
C35_Witness ==
    /\ calls_after_stop = 1
    /\ pc \in {"done", "aborted"}
    /\ failed_batches # {}
    /\ batch_idx < total_batches

\* the result translate_batch is about to return for the response it holds
BatchResult == TranslationResult(parse_response(response, CurrentBatch), CurrentBatch)

(***************************************************************************)
(* C36  When translate_batch reports a batch as fully successful (success  *)
(* and no partial-result message), every line index of the batch has a     *)
(* translation in the result, for any provider response.                   *)
(***************************************************************************)
C36_FullSuccessCoversBatch ==
    (pc = "in_batch" /\ rpc = "returned") =>
        ((BatchResult.success /\ BatchResult.error_message = "") =>
             LineIndices(CurrentBatch) \subseteq IndexSet(BatchResult.translated_lines))

\* a result reported as fully successful holds as many entries as the batch
C36_FullSuccessCountsEntries ==
    (pc = "in_batch" /\ rpc = "returned") =>
        ((BatchResult.success /\ BatchResult.error_message = "") =>
             Len(BatchResult.translated_lines) = Len(CurrentBatch))

(***************************************************************************)
(* C3  Idempotent resume: a second update_progress call with the same      *)
(* new_translations list leaves completed_translations as the first call   *)
(* left it and adds no entry.                                              *)
(***************************************************************************)
C3_IdempotentReplay == replayed => replay_kept

C3_Witness ==
    /\ replayed
    /\ last_new # <<>>
    /\ Len(last_new[1]) = MaxNew
    /\ IndexSet(last_new[1]) \subseteq get_completed_indices

(***************************************************************************)
(* C4  completed_translations contains each index at most once, after any  *)
(* sequence of create_state and update_progress calls with arbitrary       *)
(* new_translations lists.                                                 *)
(***************************************************************************)
C4_UniqueIndices ==
    \A j, k \in 1..Len(get_completed_translations) :
        get_completed_translations[j][1] = get_completed_translations[k][1]
            => j = k

====
